---- MODULE Spec2Model ----
(***************************************************************************)
(* HelloDev: the Azure DevOps token broker.                                *)
(*                                                                         *)
(*   page   src/src/ADOAuthHelper.js   token cache, getToken,              *)
(*                                     handleAuthError, sendMessage        *)
(*   relay  src/unnamed/part_000       background script: onMessage        *)
(*                                     listener, native port               *)
(*   host   src/unnamed/part_005       native messaging host: readMessage, *)
(*                                     writeMessage, main                  *)
(*                                                                         *)
(*   widget src/unnamed/part_004       ADOPRWidget: fetchPRs, user lookup, *)
(*                                     setConfig, its cached item          *)
(*   dashboard src/src/hellodev.js     saveWidgets, saveTheme              *)
(*                                                                         *)
(* Spec        the page and the relay, the host summarised by the          *)
(*             responses its main() can write;                             *)
(* PageSpec    the page alone, from any content of the token's slot;       *)
(* CacheSpec   the page from an empty slot, with handleAuthError;          *)
(* WidgetSpec  the PR widget's fetchPRs on the page, with any answer of    *)
(*             the relay and of the downstream API;                        *)
(* SystemSpec  the dashboard, the PR widget, the page and the relay;       *)
(* HostSpec    one run of the host, byte by byte on standard input;        *)
(* LocatorSpec findAzCli of the host, in any state of the disk;            *)
(* LogSpec     the page and the relay with what they write to the console. *)
(***************************************************************************)
EXTENDS Integers, Sequences, FiniteSets, TLC

VARIABLES
    storage,    \* page: localStorage[TOKEN_CACHE_KEY], a text or NoItem
    now,        \* page: Date.now(), milliseconds
    ticks,      \* number of clock advances so far
    calls,      \* page: the asynchronous operations (getToken), by call id
    msgs,       \* chrome.runtime.sendMessage round trips, in sending order
    obs,        \* page: what the last synchronous operation returned
    stdin,      \* host: [input, arrived, buf, eof, readable] of process.stdin
    reader,     \* host: readMessage's closure [messageLength, chunks, promise]
    stdout,     \* host: the buffers written to process.stdout, in order
    hostPc,     \* host: "running" | "exited" | "crashed"
    hostLog,    \* host: the subprocesses main() has invoked, in order
    widget,     \* dashboard: the PR widget, its fields and where fetchPRs is
    items,      \* localStorage: the items other than the token's, by key
    cleared,    \* history: handleAuthError has cleared the cache and
                \* getToken() has not been called since
    console     \* the records the last step has written with console.log
                \* and console.error (kept in LogSpec only)

pageVars == <<storage, now, ticks, calls, msgs, obs>>
hostVars == <<stdin, reader, stdout, hostPc, hostLog>>
appVars == <<widget, items>>
vars == <<storage, now, ticks, calls, msgs, obs,
          stdin, reader, stdout, hostPc, hostLog, widget, items, cleared,
          console>>

(***************************************************************************)
(* Bounds of the model.                                                    *)
(***************************************************************************)
MaxCalls == 2      \* page operations in progress at a time
MaxMsgs == 2       \* messages to the relay in flight at a time
MaxTicks == 1      \* clock advances in one run
MaxChunks == 2     \* data chunks in which standard input arrives
MaxExisting == 2   \* candidate paths of az that exist on disk

(***************************************************************************)
(* JavaScript values.  A value is a record with a type; an object carries  *)
(* its own properties as a function from names to values.                  *)
(***************************************************************************)
Undefined == [type |-> "undefined"]
Null == [type |-> "null"]
Str(s) == [type |-> "string", str |-> s]
Bool(b) == [type |-> "boolean", bool |-> b]
Obj(props) == [type |-> "object", props |-> props]
\* The properties of {}.
EmptyProps == [k \in {} |-> Undefined]

\* ToBoolean, as `!x`, `a && b` and `if (x)` apply it.
Truthy(v) ==
    CASE v.type = "undefined" -> FALSE
      [] v.type = "null" -> FALSE
      [] v.type = "string" -> v.str # ""
      [] v.type = "boolean" -> v.bool
      [] OTHER -> TRUE

\* v.k on an object; undefined when the object has no such property.
Get(v, k) ==
    IF v.type = "object" /\ k \in DOMAIN v.props THEN v.props[k] ELSE Undefined

\* v.k throws a TypeError on undefined and null.
GetThrows(v) == v.type \in {"undefined", "null"}

\* The function f without the keys in ks.
Without(f, ks) == [k \in DOMAIN f \ ks |-> f[k]]

\* JSON keeps no property whose value is undefined.
UndefinedKeys(props) == {k \in DOMAIN props : props[k].type = "undefined"}

(***************************************************************************)
(* JSON texts.  A text is either the serialisation of a value or a string  *)
(* that is not JSON.                                                       *)
(***************************************************************************)
NoItem == [kind |-> "none"]
NotJson(raw) == [kind |-> "notjson", raw |-> raw]

JSONstringify(v) ==
    IF v.type = "object"
    THEN [kind |-> "json", value |-> Obj(Without(v.props, UndefinedKeys(v.props)))]
    ELSE [kind |-> "json", value |-> v]

\* JSON.parse: [ok |-> TRUE, value |-> v], or ok = FALSE when it throws.
JSONparse(text) ==
    IF text.kind = "json"
    THEN [ok |-> TRUE, value |-> text.value]
    ELSE [ok |-> FALSE, value |-> Undefined]

\* What a value looks like on the other side of a message channel.
Wire(v) == JSONparse(JSONstringify(v)).value

(***************************************************************************)
(* Numbers and dates.  A number is NaN or an integer of milliseconds.      *)
(***************************************************************************)
NaN == [nan |-> TRUE, n |-> 0]
Num(n) == [nan |-> FALSE, n |-> n]
Minus(a, b) == IF a.nan \/ b.nan THEN NaN ELSE Num(a.n - b.n)
\* a > b; every comparison with NaN is false.
Greater(a, b) == ~a.nan /\ ~b.nan /\ a.n > b.n

\* The date strings of the model and the instant each one denotes.
IsoMillis ==
    [s \in {"1969-12-31T23:59:00.000Z", "1970-01-01T00:00:31.000Z",
            "1970-01-01T00:01:00.000Z", "1970-01-01T00:01:00.001Z",
            "1970-01-01T00:02:00.000Z", "1970-01-01T01:00:00.000Z"} |->
        CASE s = "1969-12-31T23:59:00.000Z" -> 0 - 60000
          [] s = "1970-01-01T00:00:31.000Z" -> 31000
          [] s = "1970-01-01T00:01:00.000Z" -> 60000
          [] s = "1970-01-01T00:01:00.001Z" -> 60001
          [] s = "1970-01-01T00:02:00.000Z" -> 120000
          [] s = "1970-01-01T01:00:00.000Z" -> 3600000]

\* new Date(v).getTime(): the instant of a date string, NaN for a string
\* that is no date.  (Every expiresOn of the model is a string.)
DateGetTime(v) ==
    IF v.type = "string" /\ v.str \in DOMAIN IsoMillis
    THEN Num(IsoMillis[v.str])
    ELSE NaN

\* The steps by which the clock advances.
TickSteps == {1, 59999}

(***************************************************************************)
(* Token cache (page).                                                     *)
(***************************************************************************)
TOKEN_EXPIRY_BUFFER_MS == 60 * 1000

\* Mutant: no try/catch, the exception of JSON.parse or of the property
\* access leaves getCachedToken.
getCachedToken_noCatch(st) ==
    IF st.kind = "none" \/ (st.kind = "notjson" /\ st.raw = "")
    THEN Null
    ELSE LET p == JSONparse(st) IN
         IF ~p.ok THEN [type |-> "exception"]
         ELSE IF GetThrows(p.value) THEN [type |-> "exception"]
         ELSE IF ~Truthy(Get(p.value, "accessToken"))
                 \/ ~Truthy(Get(p.value, "expiresOn"))
         THEN Null
         ELSE p.value

\* getCachedToken(): the cached object, or null.
getCachedToken(st) ==
    IF st.kind = "none" \/ (st.kind = "notjson" /\ st.raw = "")
    THEN Null
    ELSE LET p == JSONparse(st) IN
         IF ~p.ok THEN Null                       \* JSON.parse threw
         ELSE IF GetThrows(p.value) THEN Null     \* data.accessToken threw
         ELSE IF ~Truthy(Get(p.value, "accessToken"))
                 \/ ~Truthy(Get(p.value, "expiresOn"))
         THEN Null
         ELSE p.value

\* Mutant: >= for >.
isTokenValid_geq(st, t) ==
    LET cached == getCachedToken(st) IN
    IF ~Truthy(cached) THEN FALSE
    ELSE LET expiryTime == DateGetTime(Get(cached, "expiresOn"))
             timeRemaining == Minus(expiryTime, Num(t))
         IN  ~timeRemaining.nan
             /\ ~Greater(Num(TOKEN_EXPIRY_BUFFER_MS), timeRemaining)

\* isTokenValid() at time t.
isTokenValid(st, t) ==
    LET cached == getCachedToken(st) IN
    IF ~Truthy(cached) THEN FALSE
    ELSE LET expiryTime == DateGetTime(Get(cached, "expiresOn"))
             timeRemaining == Minus(expiryTime, Num(t))
         IN  Greater(timeRemaining, Num(TOKEN_EXPIRY_BUFFER_MS))

\* Mutant: the wrong property of the cached object.
getValidToken_wrongField(st, t) ==
    IF ~isTokenValid(st, t) THEN Null
    ELSE LET a == Get(getCachedToken(st), "expiresOn") IN
         IF Truthy(a) THEN a ELSE Null

\* getValidToken(): the access token, or null.
getValidToken(st, t) ==
    IF ~isTokenValid(st, t) THEN Null
    ELSE LET a == Get(getCachedToken(st), "accessToken") IN
         IF Truthy(a) THEN a ELSE Null

\* Mutant: only the access token is stored.
cacheToken_tokenOnly(accessToken, expiresOn) ==
    JSONstringify(Obj([accessToken |-> accessToken]))

\* cacheToken(accessToken, expiresOn): the new content of the slot.
cacheToken(accessToken, expiresOn) ==
    JSONstringify(Obj([accessToken |-> accessToken, expiresOn |-> expiresOn]))

\* Mutant: the item is set to the empty string and not removed.
clearCache_emptyItem == NotJson("")

\* clearCache(): the new content of the slot.
clearCache == NoItem

(***************************************************************************)
(* Strings.                                                                *)
(***************************************************************************)
Char(s, i) == SubSeq(s, i, i)

UpperCase ==
    {"A", "B", "C", "D", "E", "F", "G", "H", "I", "J", "K", "L", "M",
     "N", "O", "P", "Q", "R", "S", "T", "U", "V", "W", "X", "Y", "Z"}

LowerOf ==
    [c \in UpperCase |->
        CASE c = "A" -> "a" [] c = "B" -> "b" [] c = "C" -> "c" [] c = "D" -> "d"
          [] c = "E" -> "e" [] c = "F" -> "f" [] c = "G" -> "g" [] c = "H" -> "h"
          [] c = "I" -> "i" [] c = "J" -> "j" [] c = "K" -> "k" [] c = "L" -> "l"
          [] c = "M" -> "m" [] c = "N" -> "n" [] c = "O" -> "o" [] c = "P" -> "p"
          [] c = "Q" -> "q" [] c = "R" -> "r" [] c = "S" -> "s" [] c = "T" -> "t"
          [] c = "U" -> "u" [] c = "V" -> "v" [] c = "W" -> "w" [] c = "X" -> "x"
          [] c = "Y" -> "y" [] c = "Z" -> "z"]

RECURSIVE toLowerCase(_)
toLowerCase(s) ==
    IF Len(s) = 0 THEN ""
    ELSE LET c == Char(s, 1) IN
         (IF c \in UpperCase THEN LowerOf[c] ELSE c)
             \o toLowerCase(SubSeq(s, 2, Len(s)))

\* s.includes(k)
includes(s, k) ==
    \E i \in 1..(Len(s) - Len(k) + 1) : SubSeq(s, i, i + Len(k) - 1) = k

\* parts.filter(Boolean).join(sep), for a sequence of strings
RECURSIVE joinNonEmpty(_, _)
joinNonEmpty(parts, sep) ==
    IF Len(parts) = 0 THEN ""
    ELSE LET rest == joinNonEmpty(Tail(parts), sep) IN
         IF Head(parts) = "" THEN rest
         ELSE IF rest = "" THEN Head(parts)
         ELSE Head(parts) \o sep \o rest

(***************************************************************************)
(* Native host (src/unnamed/part_005): locating az and fetching the token. *)
(* An environment e says what each subprocess and the disk would answer:   *)
(*   platform   process.platform                                           *)
(*   version    "ok" | "fail" | "timeout"    az --version                  *)
(*   exists     the candidate paths that exist on disk                     *)
(*   account    "ok" | "fail" | "timeout"    az account show               *)
(*   fetch      "ok" | "fail" | "timeout"    az account get-access-token   *)
(*   out        [raw, text] standard output of the token fetch             *)
(*   stderr     standard error of a failing subprocess                     *)
(***************************************************************************)
WindowsPaths ==
    << "C:\\Program Files (x86)\\Microsoft SDKs\\Azure\\CLI2\\wbin\\az.cmd",
       "C:\\Program Files\\Microsoft SDKs\\Azure\\CLI2\\wbin\\az.cmd",
       "~\\AppData\\Local\\Programs\\Azure CLI\\wbin\\az.cmd",
       "~\\scoop\\shims\\az.cmd",
       "~\\AppData\\Local\\Programs\\Python\\Python39\\Scripts\\az.cmd",
       "~\\AppData\\Local\\Programs\\Python\\Python310\\Scripts\\az.cmd",
       "~\\AppData\\Local\\Programs\\Python\\Python311\\Scripts\\az.cmd",
       "~\\AppData\\Local\\Programs\\Python\\Python312\\Scripts\\az.cmd" >>

PosixPaths ==
    << "/usr/local/bin/az", "/opt/homebrew/bin/az", "/usr/bin/az",
       "/usr/local/bin/az", "~/.local/bin/az" >>

NotFound == ""

\* Mutant: the last path of the list that exists on disk.
RECURSIVE firstExisting_last(_, _)
firstExisting_last(paths, exists) ==
    IF Len(paths) = 0 THEN NotFound
    ELSE IF paths[Len(paths)] \in exists THEN paths[Len(paths)]
    ELSE firstExisting_last(SubSeq(paths, 1, Len(paths) - 1), exists)

\* The first path of the list that exists on disk.
RECURSIVE firstExisting(_, _)
firstExisting(paths, exists) ==
    IF Len(paths) = 0 THEN NotFound
    ELSE IF Head(paths) \in exists THEN Head(paths)
    ELSE firstExisting(Tail(paths), exists)

\* The message of the error execSync throws for an outcome.
execMessage(outcome, command) ==
    IF outcome = "timeout"
    THEN "spawnSync /bin/sh ETIMEDOUT"
    ELSE "Command failed: " \o command

\* Mutant: the bare command is returned when no candidate path exists.
findAzCli_bareFallback(e) ==
    LET isWindows == e.platform = "win32"
        azCmd == IF isWindows THEN "az.cmd" ELSE "az"
        found == firstExisting(IF isWindows THEN WindowsPaths ELSE PosixPaths,
                               e.exists)
    IN  [path |-> IF e.version = "ok" \/ found = NotFound THEN azCmd ELSE found,
         log |-> <<"version">>]

\* findAzCli(): [path, log], path = NotFound for null.
findAzCli(e) ==
    LET isWindows == e.platform = "win32"
        azCmd == IF isWindows THEN "az.cmd" ELSE "az"
    IN  IF e.version = "ok"
        THEN [path |-> azCmd, log |-> <<"version">>]
        ELSE [path |-> firstExisting(IF isWindows THEN WindowsPaths ELSE PosixPaths,
                                     e.exists),
              log |-> <<"version">>]

\* The outer catch of getAzureDevOpsToken, for an error with message msg.
hostOuterCatch(msg) ==
    IF includes(msg, "ETIMEDOUT") \/ includes(msg, "timeout")
    THEN Obj([error |-> Str("Azure CLI timed out. Open a terminal and run: az login"),
              details |-> Str(msg)])
    ELSE IF includes(msg, "AADSTS")
    THEN Obj([error |-> Str("Azure token expired. Open a terminal and run: az login"),
              details |-> Str(msg)])
    ELSE Obj([error |-> Str("Failed to get token: " \o msg), details |-> Str(msg)])

\* Mutant: no `if (!tokenData.accessToken)`.
hostGetToken_noEmptyCheck(e) ==
    LET found == findAzCli(e)
        azPath == found.path
        installUrl == IF e.platform = "win32"
                      THEN "https://aka.ms/installazurecliwindows"
                      ELSE "https://aka.ms/InstallAzureCLIDeb"
    IN
    IF azPath = NotFound
    THEN [result |-> Obj([error |->
                Str("Azure CLI (az) not found. Install from " \o installUrl)]),
          log |-> found.log]
    ELSE IF e.account # "ok"
    THEN [result |-> Obj([
                error |-> Str("Not logged in to Azure CLI. Open a terminal and run: az login"),
                details |-> Str(joinNonEmpty(
                    <<e.stderr, "", execMessage(e.account, "account show")>>, "\n"))]),
          log |-> found.log \o <<"account show">>]
    ELSE IF e.fetch # "ok"
    THEN [result |-> Obj([
                error |-> Str("Failed to get access token"),
                details |-> Str(joinNonEmpty(
                    <<e.stderr, "", execMessage(e.fetch, "account get-access-token")>>,
                    "\n"))]),
          log |-> found.log \o <<"account show", "get-access-token">>]
    ELSE
    LET parsed == JSONparse(e.out.text)
        log == found.log \o <<"account show", "get-access-token">>
    IN  IF ~parsed.ok
        THEN [result |-> hostOuterCatch("Unexpected token in JSON at position 0"),
              log |-> log]
        ELSE IF GetThrows(parsed.value)
        THEN [result |-> hostOuterCatch(
                "Cannot read properties of null (reading 'accessToken')"),
              log |-> log]
        ELSE [result |-> Obj([accessToken |-> Get(parsed.value, "accessToken"),
                              expiresOn |-> Get(parsed.value, "expiresOn")]),
              log |-> log]

\* Mutant: the token fetch is invoked whatever the login probe says.
hostGetToken_fetchAnyway(e) ==
    LET found == findAzCli(e)
        installUrl == IF e.platform = "win32"
                      THEN "https://aka.ms/installazurecliwindows"
                      ELSE "https://aka.ms/InstallAzureCLIDeb"
        log == found.log \o <<"account show", "get-access-token">>
        parsed == JSONparse(e.out.text)
    IN
    IF found.path = NotFound
    THEN [result |-> Obj([error |->
                Str("Azure CLI (az) not found. Install from " \o installUrl)]),
          log |-> found.log]
    ELSE IF e.fetch # "ok"
    THEN [result |-> Obj([
                error |-> Str("Failed to get access token"),
                details |-> Str(joinNonEmpty(
                    <<e.stderr, "", execMessage(e.fetch, "account get-access-token")>>,
                    "\n"))]),
          log |-> log]
    ELSE IF ~parsed.ok
    THEN [result |-> hostOuterCatch("Unexpected token in JSON at position 0"),
          log |-> log]
    ELSE IF GetThrows(parsed.value)
    THEN [result |-> hostOuterCatch(
            "Cannot read properties of null (reading 'accessToken')"),
          log |-> log]
    ELSE IF ~Truthy(Get(parsed.value, "accessToken"))
    THEN [result |-> Obj([error |-> Str("Empty token received. Try running: az login"),
                          details |-> Str(e.out.raw)]),
          log |-> log]
    ELSE [result |-> Obj([accessToken |-> Get(parsed.value, "accessToken"),
                          expiresOn |-> Get(parsed.value, "expiresOn")]),
          log |-> log]

\* getAzureDevOpsToken() of the host: [result, log], log the subprocesses
\* invoked, in order.
hostGetToken(e) ==
    LET found == findAzCli(e)
        azPath == found.path
        installUrl == IF e.platform = "win32"
                      THEN "https://aka.ms/installazurecliwindows"
                      ELSE "https://aka.ms/InstallAzureCLIDeb"
    IN
    IF azPath = NotFound
    THEN [result |-> Obj([error |->
                Str("Azure CLI (az) not found. Install from " \o installUrl)]),
          log |-> found.log]
    ELSE IF e.account # "ok"
    THEN [result |-> Obj([
                error |-> Str("Not logged in to Azure CLI. Open a terminal and run: az login"),
                details |-> Str(joinNonEmpty(
                    <<e.stderr, "", execMessage(e.account, "account show")>>, "\n"))]),
          log |-> found.log \o <<"account show">>]
    ELSE IF e.fetch # "ok"
    THEN [result |-> Obj([
                error |-> Str("Failed to get access token"),
                details |-> Str(joinNonEmpty(
                    <<e.stderr, "", execMessage(e.fetch, "account get-access-token")>>,
                    "\n"))]),
          log |-> found.log \o <<"account show", "get-access-token">>]
    ELSE
    LET parsed == JSONparse(e.out.text)
        log == found.log \o <<"account show", "get-access-token">>
    IN  IF ~parsed.ok
        THEN [result |-> hostOuterCatch("Unexpected token in JSON at position 0"),
              log |-> log]
        ELSE IF GetThrows(parsed.value)
        THEN [result |-> hostOuterCatch(
                "Cannot read properties of null (reading 'accessToken')"),
              log |-> log]
        ELSE IF ~Truthy(Get(parsed.value, "accessToken"))
        THEN [result |-> Obj([error |-> Str("Empty token received. Try running: az login"),
                              details |-> Str(e.out.raw)]),
              log |-> log]
        ELSE [result |-> Obj([accessToken |-> Get(parsed.value, "accessToken"),
                              expiresOn |-> Get(parsed.value, "expiresOn")]),
              log |-> log]

(***************************************************************************)
(* The environments of the model.                                          *)
(***************************************************************************)
AzOutput(props, raw) == [raw |-> raw, text |-> JSONstringify(Obj(props))]

AzOutputs ==
    { AzOutput([accessToken |-> Str("old"),
                expiresOn |-> Str("1970-01-01T00:00:31.000Z")],
               "old 1970-01-01T00:00:31.000Z"),
      AzOutput([accessToken |-> Str("abc"),
                expiresOn |-> Str("1970-01-01T00:01:00.001Z")],
               "abc 1970-01-01T00:01:00.001Z"),
      AzOutput([accessToken |-> Str("abc"),
                expiresOn |-> Str("1970-01-01T00:02:00.000Z")],
               "abc 1970-01-01T00:02:00.000Z"),
      AzOutput([accessToken |-> Str("abc")], "abc"),
      AzOutput([accessToken |-> Str(""),
                expiresOn |-> Str("1970-01-01T01:00:00.000Z")], "empty"),
      AzOutput([expiresOn |-> Str("1970-01-01T01:00:00.000Z")], "missing"),
      [raw |-> "ERROR: AADSTS70043", text |-> NotJson("ERROR: AADSTS70043")],
      [raw |-> "null", text |-> JSONstringify(Null)] }

GoodOutput ==
    AzOutput([accessToken |-> Str("abc"),
              expiresOn |-> Str("1970-01-01T00:02:00.000Z")],
             "abc 1970-01-01T00:02:00.000Z")

BaseEnv ==
    [platform |-> "linux", version |-> "ok", exists |-> {},
     account |-> "ok", fetch |-> "ok", out |-> GoodOutput,
     stderr |-> ""]

\* The environments one run of the host is checked in.
HostEnvs ==
    { [BaseEnv EXCEPT !.out = o] : o \in AzOutputs }
    \cup { [BaseEnv EXCEPT !.platform = pl, !.version = v, !.exists = ex] :
             pl \in {"linux", "win32"}, v \in {"fail", "timeout"},
             ex \in {{}, {"/usr/bin/az", "~/.local/bin/az"},
                     {"~\\scoop\\shims\\az.cmd"}} }
    \cup { [BaseEnv EXCEPT !.account = a, !.stderr = "Please run 'az login'"] :
             a \in {"fail", "timeout"} }
    \cup { [BaseEnv EXCEPT !.fetch = f, !.stderr = "ERROR: AADSTS50076"] :
             f \in {"fail", "timeout"} }

\* The environments the host runs in when the relay starts it.
RelayHostEnvs ==
    { e \in HostEnvs :
        /\ e.platform = "linux"
        /\ e.version \in {"ok", "fail"}
        /\ e.exists = {}
        /\ e.account \in {"ok", "fail"}
        /\ e.fetch = "ok"
        /\ \/ e.account = "fail"
           \/ e.out.raw \in {"old 1970-01-01T00:00:31.000Z",
                             "abc 1970-01-01T00:01:00.001Z", "abc"} }

\* What the relay's port can receive from one run of the host on a
\* getToken request: the result main() writes, as Chrome parses it.
HostResponses == { Wire(hostGetToken(e).result) : e \in RelayHostEnvs }

\* chrome.runtime.lastError.message when the native port disconnects.
DisconnectErrors ==
    { Str("Native host has exited."), Undefined }

(***************************************************************************)
(* Page: sendMessage, getToken, handleAuthError (src/src/ADOAuthHelper.js) *)
(***************************************************************************)
CallIds == 1..MaxCalls
MsgIds == 1..Len(msgs)

NoObs == [op |-> "none"]
NoOutcome == [ok |-> FALSE, value |-> Undefined, error |-> ""]
Returned(v) == [ok |-> TRUE, value |-> v, error |-> ""]
Thrown(message) == [ok |-> FALSE, value |-> Undefined, error |-> message]

\* A call slot of the page: op the operation running in it ("none" when
\* free), sent the ADO_GET_TOKEN requests it has sent so far.
IdleCall == [op |-> "none", sent |-> 0]

\* The page runs as a page of the installed extension: chrome.runtime and
\* its sendMessage exist.
ExtensionApiAvailable == TRUE

\* chrome.runtime.sendMessage(message, callback) has been called: the round
\* trip of one message, until its callback has run.  caller is the call
\* whose await it resumes, 0 for a promise nobody awaits (.catch(() => {})).
\*   chan     "sent"       on its way to the relay's listener
\*            "received"   the listener has run and has not answered yet
\*            "responded"  sendResponse(response) has been called
\*   response the response on its way to the page (chan = "responded")
\*   port     "none" | "open" | "closed": the relay's native port for it
\*   posted   the messages the relay has posted on that port
NewMessage(type, caller) ==
    [type |-> type, caller |-> caller, chan |-> "sent", response |-> Undefined,
     port |-> "none", posted |-> <<>>]

\* The sequence q without its element at i.
RemoveAt(q, i) == SubSeq(q, 1, i - 1) \o SubSeq(q, i + 1, Len(q))

\* The callback of sendMessage: how the promise settles.
sendMessageSettle(lastError, response) ==
    IF Truthy(lastError)
    THEN [resolved |-> FALSE, value |-> Undefined,
          error |-> "Extension communication error. Try reloading the page."]
    ELSE IF Truthy(Get(response, "error"))
    THEN [resolved |-> FALSE, value |-> Undefined,
          error |-> Get(response, "error").str]
    ELSE IF ~Truthy(response)
    THEN [resolved |-> FALSE, value |-> Undefined,
          error |-> "No response from background script"]
    ELSE [resolved |-> TRUE, value |-> response, error |-> ""]

NoTokenMessage ==
    "No access token received. Make sure az cli is installed and you are logged in (az login)."

\* Mutant: a failed request is sent once more.
getTokenResume_retry(settled) ==
    IF ~settled.resolved
    THEN [outcome |-> Thrown(settled.error), cache |-> FALSE, again |-> TRUE]
    ELSE IF Truthy(Get(settled.value, "accessToken"))
            /\ Truthy(Get(settled.value, "expiresOn"))
    THEN [outcome |-> Returned(Get(settled.value, "accessToken")),
          cache |-> TRUE, again |-> FALSE]
    ELSE [outcome |-> Thrown(NoTokenMessage), cache |-> FALSE, again |-> FALSE]

\* Mutant: the token is returned and not cached.
getTokenResume_noCache(settled) ==
    IF ~settled.resolved
    THEN [outcome |-> Thrown(settled.error), cache |-> FALSE, again |-> FALSE]
    ELSE IF Truthy(Get(settled.value, "accessToken"))
            /\ Truthy(Get(settled.value, "expiresOn"))
    THEN [outcome |-> Returned(Get(settled.value, "accessToken")),
          cache |-> FALSE, again |-> FALSE]
    ELSE [outcome |-> Thrown(NoTokenMessage), cache |-> FALSE, again |-> FALSE]

\* Mutant: no throw at the end, response.accessToken is returned as it is.
getTokenResume_noThrow(settled) ==
    IF ~settled.resolved
    THEN [outcome |-> Thrown(settled.error), cache |-> FALSE, again |-> FALSE]
    ELSE [outcome |-> Returned(Get(settled.value, "accessToken")),
          cache |-> Truthy(Get(settled.value, "accessToken"))
                    /\ Truthy(Get(settled.value, "expiresOn")),
          again |-> FALSE]

\* Mutant: the response is cached as soon as it has an accessToken.
getTokenResume_cacheNoExpiry(settled) ==
    IF ~settled.resolved
    THEN [outcome |-> Thrown(settled.error), cache |-> FALSE, again |-> FALSE]
    ELSE IF Truthy(Get(settled.value, "accessToken"))
    THEN [outcome |-> Returned(Get(settled.value, "accessToken")),
          cache |-> TRUE, again |-> FALSE]
    ELSE [outcome |-> Thrown(NoTokenMessage), cache |-> FALSE, again |-> FALSE]

\* Mutant: the response is cached before it is looked at.
getTokenResume_cacheFirst(settled) ==
    IF ~settled.resolved
    THEN [outcome |-> Thrown(settled.error), cache |-> FALSE, again |-> FALSE]
    ELSE IF Truthy(Get(settled.value, "accessToken"))
            /\ Truthy(Get(settled.value, "expiresOn"))
    THEN [outcome |-> Returned(Get(settled.value, "accessToken")),
          cache |-> TRUE, again |-> FALSE]
    ELSE [outcome |-> Thrown(NoTokenMessage), cache |-> TRUE, again |-> FALSE]

\* Mutant: a response is not cached while the slot holds a valid token.
getTokenResume_firstWins(settled) ==
    IF ~settled.resolved
    THEN [outcome |-> Thrown(settled.error), cache |-> FALSE, again |-> FALSE]
    ELSE IF Truthy(Get(settled.value, "accessToken"))
            /\ Truthy(Get(settled.value, "expiresOn"))
    THEN [outcome |-> Returned(Get(settled.value, "accessToken")),
          cache |-> ~isTokenValid(storage, now), again |-> FALSE]
    ELSE [outcome |-> Thrown(NoTokenMessage), cache |-> FALSE, again |-> FALSE]

\* getToken() after `await this.sendMessage(...)`: what it returns or throws,
\* whether it caches the response, and whether it sends the request again.
getTokenResume(settled) ==
    IF ~settled.resolved
    THEN [outcome |-> Thrown(settled.error), cache |-> FALSE, again |-> FALSE]
    ELSE IF Truthy(Get(settled.value, "accessToken"))
            /\ Truthy(Get(settled.value, "expiresOn"))
    THEN [outcome |-> Returned(Get(settled.value, "accessToken")),
          cache |-> TRUE, again |-> FALSE]
    ELSE [outcome |-> Thrown(NoTokenMessage), cache |-> FALSE, again |-> FALSE]

authKeywords == <<"login", "401", "authentication", "token", "unauthorized">>

\* Mutant: no toLowerCase().
isAuthError_caseSensitive(errorMessage) ==
    \E i \in 1..Len(authKeywords) : includes(errorMessage, authKeywords[i])

\* authKeywords.some(k => errorMessage.toLowerCase().includes(k))
isAuthError(errorMessage) ==
    \E i \in 1..Len(authKeywords) :
        includes(toLowerCase(errorMessage), authKeywords[i])

\* The messages handleAuthError is called with.
ErrorMessages ==
    { "Authentication failed. Try running: az login",
      "Project or repository not found.",
      "API error: 500",
      "Failed to fetch",
      "HTTP 401",
      "Unauthorized" }

\* What fetch() gives the widget: a rejection (the network failed) or a
\* response with a status and a body.  The bodies of the model: a JSON
\* list with the user looked up ("match"), without ("nomatch"), a page of
\* HTML ("html"), nothing ("").
NetworkFailure == [kind |-> "network", status |-> 0, body |-> ""]
Response(status, body) == [kind |-> "response", status |-> status, body |-> body]
DownstreamResponses ==
    {NetworkFailure}
    \cup {Response(status, "") : status \in {401, 404, 500}}
    \cup {Response(200, body) : body \in {"match", "nomatch", "html", ""}}

\* response.ok
responseOk(r) == r.status \in 200..299

\* Whether response.json() resolves.
bodyParses(r) == r.body \in {"match", "nomatch"}

\* The message of the SyntaxError response.json() rejects with.
jsonError(r) ==
    IF r.body = ""
    THEN "Unexpected end of JSON input"
    ELSE "Unexpected token '<', \"<!DOCTYPE \"... is not valid JSON"

\* The try block of fetchPRs from the answer r to the pull-request request:
\* whether it throws, and the message of what it throws.
fetchPRsFailure(r) ==
    IF r.kind = "network"
    THEN [thrown |-> TRUE, message |-> "Failed to fetch"]
    ELSE IF ~responseOk(r)
    THEN [thrown |-> TRUE,
          message |-> IF r.status = 401
                      THEN "Authentication failed. Try running: az login"
                      ELSE IF r.status = 404
                      THEN "Project or repository not found."
                      ELSE "API error: " \o ToString(r.status)]
    ELSE IF ~bodyParses(r)
    THEN [thrown |-> TRUE, message |-> jsonError(r)]
    ELSE [thrown |-> FALSE, message |-> ""]

\* The messages getToken() throws in the model.
GetTokenErrors ==
    { "Extension API not available",
      "Extension communication error. Try reloading the page.",
      "No response from background script",
      "Failed to get access token",
      "Not logged in to Azure CLI. Open a terminal and run: az login",
      "Native host error: Native host has exited.. Make sure the native host is installed.",
      "Access to native messaging host is forbidden.",
      "Invalid response from native host",
      NoTokenMessage }

\* The messages fetchPRs calls handleAuthError with.
FetchPRsErrors ==
    GetTokenErrors
    \cup {fetchPRsFailure(r).message : r \in {x \in DownstreamResponses :
                                                fetchPRsFailure(x).thrown}}
    \cup {"Failed to fetch PRs"}

\* handleAuthError's classification of each message of the model.
isAuthErrorOf == [e \in ErrorMessages \cup FetchPRsErrors |-> isAuthError(e)]

\* The clock advances.
Tick(d) ==
    /\ ticks < MaxTicks
    /\ now' = now + d
    /\ ticks' = ticks + 1
    /\ obs' = NoObs
    /\ UNCHANGED <<storage, calls, msgs>>
    /\ UNCHANGED <<hostVars, appVars, cleared>>

\* Mutant: a call made while a request is in flight waits for that request
\* and sends none of its own.
GetToken_coalesced(c) ==
    /\ calls[c].op = "none"
    /\ \A d \in CallIds : d < c => calls[d].op # "none"
    /\ Len(msgs) < MaxMsgs
    /\ IF Truthy(getValidToken(storage, now))
       THEN /\ obs' = [op |-> "getToken", call |-> c, done |-> TRUE,
                       outcome |-> Returned(getValidToken(storage, now)),
                       sent |-> 0]
            /\ UNCHANGED <<calls, msgs>>
       ELSE IF \E m \in MsgIds : msgs[m].type = "ADO_GET_TOKEN"
       THEN /\ calls' = [calls EXCEPT ![c] = [op |-> "getToken", sent |-> 0]]
            /\ obs' = [op |-> "getToken", call |-> c, done |-> FALSE,
                       outcome |-> NoOutcome, sent |-> 0]
            /\ UNCHANGED msgs
       ELSE /\ calls' = [calls EXCEPT ![c] = [op |-> "getToken", sent |-> 1]]
            /\ msgs' = Append(msgs, NewMessage("ADO_GET_TOKEN", c))
            /\ obs' = [op |-> "getToken", call |-> c, done |-> FALSE,
                       outcome |-> NoOutcome, sent |-> 1]
    /\ cleared' = FALSE
    /\ UNCHANGED <<storage, now, ticks>>
    /\ UNCHANGED <<hostVars, appVars>>

\* ADOAuthHelper.getToken() called in call slot c, up to its return or its
\* await: what it does to the calls, the messages and the observation.
getToken(c) ==
    /\ calls[c].op = "none"
    /\ \A d \in CallIds : d < c => calls[d].op # "none"
    /\ Len(msgs) < MaxMsgs
    /\ LET cachedToken == getValidToken(storage, now) IN
       IF Truthy(cachedToken)
       THEN /\ obs' = [op |-> "getToken", call |-> c, done |-> TRUE,
                       outcome |-> Returned(cachedToken), sent |-> 0]
            /\ UNCHANGED <<calls, msgs>>
       ELSE IF ExtensionApiAvailable
       THEN /\ calls' = [calls EXCEPT ![c] = [op |-> "getToken", sent |-> 1]]
            /\ msgs' = Append(msgs, NewMessage("ADO_GET_TOKEN", c))
            /\ obs' = [op |-> "getToken", call |-> c, done |-> FALSE,
                       outcome |-> NoOutcome, sent |-> 1]
       ELSE /\ obs' = [op |-> "getToken", call |-> c, done |-> TRUE,
                       outcome |-> Thrown("Extension API not available"),
                       sent |-> 0]
            /\ UNCHANGED <<calls, msgs>>
    /\ cleared' = FALSE

\* A consumer calls ADOAuthHelper.getToken().
GetToken(c) ==
    /\ getToken(c)
    /\ UNCHANGED <<storage, now, ticks>>
    /\ UNCHANGED <<hostVars, appVars>>

\* Mutant: no .catch(() => {}) on the clear notification of refreshToken.
refreshAfterClear_noCatch(settled) == settled.resolved

\* refreshToken() after `await this.sendMessage({type:
\* 'ADO_CLEAR_TOKEN_CACHE'}).catch(() => {})`: whether it goes on.
refreshAfterClear(settled) == TRUE

\* refreshToken() after `await this.sendMessage({type: 'ADO_GET_TOKEN'})`:
\* what it returns or throws, and whether it caches the response.
refreshTokenResume(settled) ==
    IF ~settled.resolved
    THEN [outcome |-> Thrown(settled.error), cache |-> FALSE]
    ELSE IF Truthy(Get(settled.value, "accessToken"))
            /\ Truthy(Get(settled.value, "expiresOn"))
    THEN [outcome |-> Returned(Get(settled.value, "accessToken")), cache |-> TRUE]
    ELSE [outcome |-> Thrown(NoTokenMessage), cache |-> FALSE]

\* Mutant: refreshToken() does not clear the cache.
RefreshToken_noClear(c) ==
    /\ calls[c].op = "none"
    /\ \A d \in CallIds : d < c => calls[d].op # "none"
    /\ Len(msgs) < MaxMsgs
    /\ calls' = [calls EXCEPT ![c] = [op |-> "refreshToken", sent |-> 0]]
    /\ msgs' = Append(msgs, NewMessage("ADO_CLEAR_TOKEN_CACHE", c))
    /\ obs' = [op |-> "refreshToken", call |-> c, done |-> FALSE,
               outcome |-> NoOutcome, sent |-> 0]
    /\ UNCHANGED <<storage, now, ticks>>
    /\ UNCHANGED <<hostVars, appVars, cleared>>

\* ADOAuthHelper.refreshToken(), up to its first await.
RefreshToken(c) ==
    /\ calls[c].op = "none"
    /\ \A d \in CallIds : d < c => calls[d].op # "none"
    /\ Len(msgs) < MaxMsgs
    /\ storage' = clearCache
    /\ IF ExtensionApiAvailable
       THEN /\ calls' = [calls EXCEPT ![c] = [op |-> "refreshToken", sent |-> 0]]
            /\ msgs' = Append(msgs, NewMessage("ADO_CLEAR_TOKEN_CACHE", c))
            /\ obs' = [op |-> "refreshToken", call |-> c, done |-> FALSE,
                       outcome |-> NoOutcome, sent |-> 0]
       ELSE /\ obs' = [op |-> "refreshToken", call |-> c, done |-> TRUE,
                       outcome |-> Thrown("Extension API not available"),
                       sent |-> 0]
            /\ UNCHANGED <<calls, msgs>>
    /\ UNCHANGED <<now, ticks>>
    /\ UNCHANGED <<hostVars, appVars, cleared>>

\* The continuation of refreshToken() in call c when message m is settled.
RefreshResume(m, c, settled, lastError, response) ==
    IF msgs[m].type = "ADO_CLEAR_TOKEN_CACHE" /\ refreshAfterClear(settled)
    THEN /\ msgs' = Append(RemoveAt(msgs, m), NewMessage("ADO_GET_TOKEN", c))
         /\ calls' = [calls EXCEPT ![c].sent = @ + 1]
         /\ obs' = [op |-> "refreshCallback", type |-> msgs[m].type, call |-> c,
                    failed |-> Truthy(lastError), response |-> response,
                    done |-> FALSE, outcome |-> NoOutcome,
                    sent |-> calls[c].sent + 1]
         /\ UNCHANGED storage
    ELSE LET resumed == IF msgs[m].type = "ADO_CLEAR_TOKEN_CACHE"
                        THEN [outcome |-> Thrown(settled.error), cache |-> FALSE]
                        ELSE refreshTokenResume(settled)
         IN  /\ msgs' = RemoveAt(msgs, m)
             /\ calls' = [calls EXCEPT ![c] = IdleCall]
             /\ storage' =
                  IF resumed.cache
                  THEN cacheToken(Get(settled.value, "accessToken"),
                                  Get(settled.value, "expiresOn"))
                  ELSE storage
             /\ obs' = [op |-> "refreshCallback", type |-> msgs[m].type,
                        call |-> c, failed |-> Truthy(lastError),
                        response |-> response, done |-> TRUE,
                        outcome |-> resumed.outcome, sent |-> calls[c].sent]

\* The callback of sendMessage runs for message m, with a response or with
\* chrome.runtime.lastError set, and the caller's continuation runs.
Callback(m, lastError, response) ==
    LET settled == sendMessageSettle(lastError, response)
        c == msgs[m].caller
        resumed == getTokenResume(settled)
    IN  IF c = 0
        THEN /\ msgs' = RemoveAt(msgs, m)
             /\ obs' = [op |-> "callback", type |-> msgs[m].type, call |-> 0,
                        failed |-> Truthy(lastError), response |-> response,
                        done |-> TRUE, outcome |-> NoOutcome, sent |-> 0]
             /\ UNCHANGED <<storage, calls>>
        ELSE IF calls[c].op = "refreshToken"
        THEN RefreshResume(m, c, settled, lastError, response)
        ELSE IF resumed.again
        THEN /\ msgs' = Append(RemoveAt(msgs, m), NewMessage("ADO_GET_TOKEN", c))
             /\ calls' = [calls EXCEPT ![c].sent = @ + 1]
             /\ obs' = [op |-> "callback", type |-> msgs[m].type, call |-> c,
                        failed |-> Truthy(lastError), response |-> response,
                        done |-> FALSE, outcome |-> NoOutcome,
                        sent |-> calls[c].sent + 1]
             /\ UNCHANGED storage
        ELSE /\ msgs' = RemoveAt(msgs, m)
             /\ calls' = [calls EXCEPT ![c] = IdleCall]
             /\ storage' =
                  IF resumed.cache
                  THEN cacheToken(Get(settled.value, "accessToken"),
                                  Get(settled.value, "expiresOn"))
                  ELSE storage
             /\ obs' = [op |-> "callback", type |-> msgs[m].type, call |-> c,
                        failed |-> Truthy(lastError), response |-> response,
                        done |-> TRUE, outcome |-> resumed.outcome,
                        sent |-> calls[c].sent]

\* The relay's response reaches the page.
PageCallback(m) ==
    /\ msgs[m].chan = "responded"
    /\ Callback(m, Undefined, msgs[m].response)
    /\ UNCHANGED <<now, ticks>>
    /\ UNCHANGED <<hostVars, appVars, cleared>>

\* The message channel closes before a response was received (no listener,
\* or the background script has gone, and its ports with it).
ChannelError(m) ==
    /\ msgs[m].chan \in {"sent", "received"}
    /\ Callback(m, Str("The message port closed before a response was received."),
                Undefined)
    /\ UNCHANGED <<now, ticks>>
    /\ UNCHANGED <<hostVars, appVars, cleared>>

\* Mutant: the cache is cleared whatever the message.
HandleAuthError_alwaysClear(errorMessage) ==
    /\ Len(msgs) < MaxMsgs
    /\ storage' = clearCache
    /\ msgs' = Append(msgs, NewMessage("ADO_CLEAR_TOKEN_CACHE", 0))
    /\ obs' = [op |-> "handleAuthError", message |-> errorMessage,
               ret |-> isAuthErrorOf[errorMessage]]
    /\ cleared' = TRUE
    /\ UNCHANGED <<now, ticks, calls>>
    /\ UNCHANGED <<hostVars, appVars>>

\* ADOAuthHelper.handleAuthError(errorMessage): what it does to the slot,
\* the messages and the observation.
handleAuthError(errorMessage) ==
    /\ isAuthErrorOf[errorMessage] => Len(msgs) < MaxMsgs
    /\ LET ret == isAuthErrorOf[errorMessage] IN
       /\ IF ret
          THEN /\ storage' = clearCache
               /\ msgs' = IF ExtensionApiAvailable
                          THEN Append(msgs, NewMessage("ADO_CLEAR_TOKEN_CACHE", 0))
                          ELSE msgs
          ELSE UNCHANGED <<storage, msgs>>
       /\ obs' = [op |-> "handleAuthError", message |-> errorMessage, ret |-> ret]
       /\ cleared' = (ret \/ cleared)

\* A consumer calls ADOAuthHelper.handleAuthError(errorMessage).
HandleAuthError(errorMessage) ==
    /\ handleAuthError(errorMessage)
    /\ UNCHANGED <<now, ticks, calls>>
    /\ UNCHANGED <<hostVars, appVars>>

(***************************************************************************)
(* Relay: the background script (src/unnamed/part_000).                    *)
(***************************************************************************)
NATIVE_HOST_NAME == "com.hellodev.ado"

\* Mutant: the details of an error are not forwarded.
relayOnPortMessage_dropDetails(response) ==
    IF Truthy(Get(response, "error"))
    THEN Obj([error |-> Get(response, "error")])
    ELSE IF Truthy(Get(response, "accessToken"))
    THEN Obj([accessToken |-> Get(response, "accessToken"),
              expiresOn |-> Get(response, "expiresOn")])
    ELSE Obj([error |-> Str("Invalid response from native host")])

\* port.onMessage: the value getAzureDevOpsToken's promise resolves with.
relayOnPortMessage(response) ==
    IF Truthy(Get(response, "error"))
    THEN Obj([error |-> Get(response, "error"), details |-> Get(response, "details")])
    ELSE IF Truthy(Get(response, "accessToken"))
    THEN Obj([accessToken |-> Get(response, "accessToken"),
              expiresOn |-> Get(response, "expiresOn")])
    ELSE Obj([error |-> Str("Invalid response from native host")])

\* port.onDisconnect, error being chrome.runtime.lastError's message:
\* whether the promise is resolved, and with what.
relayOnPortDisconnect(error) ==
    IF Truthy(error)
    THEN [resolves |-> TRUE,
          value |-> Obj([error |-> Str("Native host error: " \o error.str
                            \o ". Make sure the native host is installed.")])]
    ELSE [resolves |-> FALSE, value |-> Undefined]

\* Mutant: one sendResponse shared by the requests, that of the oldest one.
sendResponse_shared(m, result) ==
    [msgs[1] EXCEPT !.chan = "responded", !.response = Wire(result)]

\* sendResponse(result): the response travels back to the page.
sendResponse(m, result) ==
    [msgs[m] EXCEPT !.chan = "responded", !.response = Wire(result)]

\* onMessage listener, ADO_GET_TOKEN: the port is connected, the listeners
\* are added and the request is posted.
RelayGetToken(m) ==
    /\ msgs[m].chan = "sent"
    /\ msgs[m].type = "ADO_GET_TOKEN"
    /\ msgs' = [msgs EXCEPT ![m].chan = "received", ![m].port = "open",
                    ![m].posted = Append(@, Obj([action |-> Str("getToken")]))]
    /\ obs' = NoObs
    /\ UNCHANGED <<storage, now, ticks, calls>>
    /\ UNCHANGED <<hostVars, appVars, cleared>>

\* onMessage listener, ADO_GET_TOKEN: chrome.runtime.connectNative throws.
RelayConnectThrows(m) ==
    /\ msgs[m].chan = "sent"
    /\ msgs[m].type = "ADO_GET_TOKEN"
    /\ msgs' = [msgs EXCEPT ![m] = sendResponse(m,
                    Obj([error |-> Str("Access to native messaging host is forbidden.")]))]
    /\ obs' = NoObs
    /\ UNCHANGED <<storage, now, ticks, calls>>
    /\ UNCHANGED <<hostVars, appVars, cleared>>

\* Mutant: the clear request goes to the native host like a token request.
RelayClearCache_connects(m) ==
    /\ msgs[m].chan = "sent"
    /\ msgs[m].type = "ADO_CLEAR_TOKEN_CACHE"
    /\ msgs' = [msgs EXCEPT ![m].chan = "received", ![m].port = "open",
                    ![m].posted = Append(@, Obj([action |-> Str("getToken")]))]
    /\ obs' = NoObs
    /\ UNCHANGED <<storage, now, ticks, calls>>
    /\ UNCHANGED <<hostVars, appVars, cleared>>

\* onMessage listener, ADO_CLEAR_TOKEN_CACHE.
RelayClearCache(m) ==
    /\ msgs[m].chan = "sent"
    /\ msgs[m].type = "ADO_CLEAR_TOKEN_CACHE"
    /\ msgs' = [msgs EXCEPT ![m] = sendResponse(m, Obj([success |-> Bool(TRUE)]))]
    /\ obs' = NoObs
    /\ UNCHANGED <<storage, now, ticks, calls>>
    /\ UNCHANGED <<hostVars, appVars, cleared>>

\* port.onMessage: the host has written its response.
PortOnMessage(m, response) ==
    /\ msgs[m].port = "open"
    /\ msgs' = [msgs EXCEPT ![m] =
                    [sendResponse(m, relayOnPortMessage(response))
                        EXCEPT !.port = "closed"]]
    /\ obs' = NoObs
    /\ UNCHANGED <<storage, now, ticks, calls>>
    /\ UNCHANGED <<hostVars, appVars, cleared>>

\* port.onDisconnect: the host could not be started, or has exited without
\* a response; error is chrome.runtime.lastError's message, if any.
PortOnDisconnect(m, error) ==
    /\ msgs[m].port = "open"
    /\ LET d == relayOnPortDisconnect(error) IN
       msgs' = [msgs EXCEPT ![m] =
                    IF d.resolves
                    THEN [sendResponse(m, d.value) EXCEPT !.port = "closed"]
                    ELSE [msgs[m] EXCEPT !.port = "closed"]]
    /\ obs' = NoObs
    /\ UNCHANGED <<storage, now, ticks, calls>>
    /\ UNCHANGED <<hostVars, appVars, cleared>>

(***************************************************************************)
(* The dashboard (src/src/hellodev.js) and its PR widget                   *)
(* (src/unnamed/part_004): their state.                                    *)
(***************************************************************************)
TOKEN_CACHE_KEY == "ado_auth_token"
STORAGE_KEY == "hellodev-widgets"
THEME_STORAGE_KEY == "hellodev-theme"

\* The ids the dashboard gives its widgets.
WidgetIds == {"widget-1", "widget-0"}

\* Mutant: the widget keeps its pull requests under the token's key.
getCacheKey_tokenKey(id) == TOKEN_CACHE_KEY

\* getCacheKey() of the widget with this id
getCacheKey(id) == "adopr_cache_" \o id

\* The keys of localStorage the dashboard and its widgets use.
ItemKeys ==
    {STORAGE_KEY, THEME_STORAGE_KEY} \cup {getCacheKey(id) : id \in WidgetIds}

\* The configurations of the widget: organization and project are set, the
\* creator and reviewer filters are set or empty.
WidgetConfigs ==
    { [creatorEmail |-> "", reviewerEmail |-> ""],
      [creatorEmail |-> "dev", reviewerEmail |-> ""],
      [creatorEmail |-> "dev", reviewerEmail |-> "rev"] }

\* The filters of a run of fetchPRs that has read none.
NoFilters == [creatorEmail |-> "", reviewerEmail |-> ""]

\* new ADOPRWidget(config) with nothing to restore from its cached item.
\*   pc        where fetchPRs is: "idle" | "token" (await getToken()) |
\*             "users" | "identities" (the fetch of resolveUserId and of
\*             resolveUserIdViaIdentities, for the filter who) | "prs"
\*   call      the getToken() call fetchPRs awaits, 0 for none
\*   error     this.error, "" for null
\*   asked     the filters the run of fetchPRs has read from this.data for
\*             its requests: creatorEmail at line 517, reviewerEmail at 526
\*   prs       this.prs: empty, or the list fetched for the filters asked
\*   got401    whether the run of fetchPRs has received a 401 response
\*   reported  the messages the run has called handleAuthError with
NewWidget(id, data) ==
    [id |-> id, data |-> data, loading |-> FALSE, error |-> "",
     pc |-> "idle", who |-> "", call |-> 0, userIdCache |-> {},
     asked |-> NoFilters, prs |-> <<>>, got401 |-> FALSE, reported |-> <<>>]

\* No dashboard is modelled: the widget is not used, localStorage holds the
\* token's item at most.
AppIdle ==
    /\ widget = NewWidget("widget-1", [creatorEmail |-> "", reviewerEmail |-> ""])
    /\ items = [k \in ItemKeys |-> NoItem]
    /\ cleared = FALSE

(***************************************************************************)
(* The page and the relay.                                                 *)
(***************************************************************************)
\* No host process is modelled byte by byte here.
HostIdle ==
    /\ stdin = [input |-> <<>>, arrived |-> 0, nchunks |-> 0, buf |-> <<>>,
                eof |-> FALSE, readable |-> FALSE, ended |-> FALSE]
    /\ reader = [messageLength |-> -1, chunks |-> <<>>, promise |-> "pending",
                 value |-> Undefined, parsedAt |-> -1]
    /\ stdout = <<>>
    /\ hostPc = "idle"
    /\ hostLog = <<>>

Init ==
    /\ console = <<>>
    /\ storage = NoItem
    /\ now = 0
    /\ ticks = 0
    /\ calls = [c \in CallIds |-> IdleCall]
    /\ msgs = <<>>
    /\ obs = NoObs
    /\ HostIdle
    /\ AppIdle

Next ==
    \/ \E d \in TickSteps : Tick(d) /\ UNCHANGED console
    \/ \E c \in CallIds : GetToken(c) /\ UNCHANGED console
    \/ \E e \in ErrorMessages : HandleAuthError(e) /\ UNCHANGED console
    \/ \E m \in MsgIds : RelayGetToken(m) /\ UNCHANGED console
    \/ \E m \in MsgIds : RelayConnectThrows(m) /\ UNCHANGED console
    \/ \E m \in MsgIds : RelayClearCache(m) /\ UNCHANGED console
    \/ \E m \in MsgIds, r \in HostResponses : PortOnMessage(m, r) /\ UNCHANGED console
    \/ \E m \in MsgIds, e \in DisconnectErrors : PortOnDisconnect(m, e) /\ UNCHANGED console
    \/ \E m \in MsgIds : PageCallback(m) /\ UNCHANGED console
    \/ \E m \in MsgIds : ChannelError(m) /\ UNCHANGED console

Spec == Init /\ [][Next]_vars

(***************************************************************************)
(* The page alone, against any content of the storage slot and any answer  *)
(* of the relay.                                                           *)
(***************************************************************************)
\* What localStorage can hold under TOKEN_CACHE_KEY.
StorageContents ==
    { NoItem, NotJson(""), NotJson("{\"accessToken\":\"ab"),
      JSONstringify(Null), JSONstringify(Bool(TRUE)),
      JSONstringify(Obj(EmptyProps)),
      JSONstringify(Obj([accessToken |-> Str("abc")])),
      JSONstringify(Obj([expiresOn |-> Str("1970-01-01T01:00:00.000Z")])),
      JSONstringify(Obj([accessToken |-> Str(""),
                         expiresOn |-> Str("1970-01-01T01:00:00.000Z")])),
      JSONstringify(Obj([accessToken |-> Str("abc"), expiresOn |-> Str("")])),
      JSONstringify(Obj([accessToken |-> Str("abc"), expiresOn |-> Str("soon")])) }
    \cup { JSONstringify(Obj([accessToken |-> Str("abc"), expiresOn |-> Str(x)])) :
             x \in DOMAIN IsoMillis }

\* What the callback of sendMessage can be given as the response.
PageResponses ==
    { Undefined, Null, Obj(EmptyProps),
      Obj([success |-> Bool(TRUE)]),
      Obj([accessToken |-> Str("abc")]),
      Obj([expiresOn |-> Str("1970-01-01T00:01:00.001Z")]),
      Obj([accessToken |-> Str(""), expiresOn |-> Str("1970-01-01T00:01:00.001Z")]),
      Obj([accessToken |-> Str("abc"), expiresOn |-> Str("")]),
      Obj([accessToken |-> Str("abc"), expiresOn |-> Str("1970-01-01T00:01:00.001Z")]),
      Obj([accessToken |-> Str("old"), expiresOn |-> Str("1970-01-01T00:00:31.000Z")]),
      Obj([error |-> Str("Failed to get access token")]),
      Obj([error |-> Str(""), accessToken |-> Str("abc"),
           expiresOn |-> Str("1970-01-01T00:01:00.001Z")]) }

\* The arguments cacheToken is called with.
CachedByCall ==
    { <<Str("abc"), Str("1970-01-01T00:01:00.001Z")>>,
      <<Str("old"), Str("1970-01-01T00:00:31.000Z")>> }

\* ADOAuthHelper.isTokenValid()
IsTokenValidCall ==
    /\ obs' = [op |-> "isTokenValid", ret |-> isTokenValid(storage, now)]
    /\ UNCHANGED <<storage, now, ticks, calls, msgs>>
    /\ UNCHANGED <<hostVars, appVars, cleared>>

\* ADOAuthHelper.getCachedToken()
GetCachedTokenCall ==
    /\ obs' = [op |-> "getCachedToken", ret |-> getCachedToken(storage)]
    /\ UNCHANGED <<storage, now, ticks, calls, msgs>>
    /\ UNCHANGED <<hostVars, appVars, cleared>>

\* ADOAuthHelper.cacheToken(accessToken, expiresOn)
CacheTokenCall(accessToken, expiresOn) ==
    /\ storage' = cacheToken(accessToken, expiresOn)
    /\ obs' = [op |-> "cacheToken", accessToken |-> accessToken,
               expiresOn |-> expiresOn, before |-> storage]
    /\ UNCHANGED <<now, ticks, calls, msgs>>
    /\ UNCHANGED <<hostVars, appVars, cleared>>

\* ADOAuthHelper.clearCache()
ClearCacheCall ==
    /\ storage' = clearCache
    /\ obs' = [op |-> "clearCache", before |-> storage]
    /\ UNCHANGED <<now, ticks, calls, msgs>>
    /\ UNCHANGED <<hostVars, appVars, cleared>>

\* The callback of sendMessage is given any response.
AnyResponse(m, response) ==
    /\ msgs[m].chan = "sent"
    /\ Callback(m, Undefined, response)
    /\ UNCHANGED <<now, ticks>>
    /\ UNCHANGED <<hostVars, appVars, cleared>>

PageInit ==
    /\ console = <<>>
    /\ storage \in StorageContents
    /\ now = 0
    /\ ticks = 0
    /\ calls = [c \in CallIds |-> IdleCall]
    /\ msgs = <<>>
    /\ obs = NoObs
    /\ HostIdle
    /\ AppIdle

PageNext ==
    \/ \E d \in TickSteps : Tick(d) /\ UNCHANGED console
    \/ IsTokenValidCall /\ UNCHANGED console
    \/ GetCachedTokenCall /\ UNCHANGED console
    \/ \E entry \in CachedByCall : CacheTokenCall(entry[1], entry[2]) /\ UNCHANGED console
    \/ ClearCacheCall /\ UNCHANGED console
    \/ \E c \in CallIds : GetToken(c) /\ UNCHANGED console
    \/ \E c \in CallIds : RefreshToken(c) /\ UNCHANGED console
    \/ \E m \in MsgIds, r \in PageResponses : AnyResponse(m, r) /\ UNCHANGED console
    \/ \E m \in MsgIds : ChannelError(m) /\ UNCHANGED console

PageSpec == PageInit /\ [][PageNext]_vars

(***************************************************************************)
(* The page from an empty slot, with every operation of the token cache.   *)
(***************************************************************************)
CacheInit == PageInit /\ storage = NoItem

CacheNext ==
    \/ PageNext /\ UNCHANGED console
    \/ \E e \in ErrorMessages : HandleAuthError(e) /\ UNCHANGED console

CacheSpec == CacheInit /\ [][CacheNext]_vars

(***************************************************************************)
(* The PR widget (src/unnamed/part_004) and the dashboard                  *)
(* (src/src/hellodev.js) on the page, with any answer of the relay and of  *)
(* the downstream API.                                                     *)
(***************************************************************************)
\* localStorage.setItem(key, value)
setItem(key, value) ==
    /\ storage' = IF key = TOKEN_CACHE_KEY THEN value ELSE storage
    /\ items' = IF key \in DOMAIN items THEN [items EXCEPT ![key] = value]
                ELSE items

\* localStorage.removeItem(key)
removeItem(key) == setItem(key, NoItem)

\* fetchPRs goes on to the lookup of the reviewer, or to the pull-request
\* request: resolveUserId sends a request when the filter is set and the
\* user is not in _userIdCache.
afterCreator(w) ==
    LET read == [w EXCEPT !.asked.reviewerEmail = w.data.reviewerEmail] IN
    IF w.data.reviewerEmail # "" /\ w.data.reviewerEmail \notin w.userIdCache
    THEN [read EXCEPT !.pc = "users", !.who = "reviewer"]
    ELSE [read EXCEPT !.pc = "prs", !.who = ""]

\* fetchPRs goes on after getToken() has returned.
afterToken(w) ==
    LET read == [w EXCEPT !.asked.creatorEmail = w.data.creatorEmail] IN
    IF w.data.creatorEmail # "" /\ w.data.creatorEmail \notin w.userIdCache
    THEN [read EXCEPT !.pc = "users", !.who = "creator"]
    ELSE afterCreator(read)

\* fetchPRs goes on after resolveUserId has returned.
afterLookup(w) ==
    IF w.who = "creator" THEN afterCreator(w)
    ELSE [w EXCEPT !.pc = "prs", !.who = ""]

\* The filter value resolveUserId is looking up: its argument emailOrName.
lookedUp(w) ==
    IF w.who = "creator" THEN w.asked.creatorEmail ELSE w.asked.reviewerEmail

\* The widget after the answer r to one of its requests.
received(w, r) == [w EXCEPT !.got401 = @ \/ r.status = 401]

\* fetchPRs's await of getToken() is settled: its continuation is the next
\* thing to run.
AwaitSettled ==
    /\ widget.pc = "token"
    /\ obs.op \in {"getToken", "callback"}
    /\ obs.call = widget.call
    /\ obs.done

\* The catch and finally blocks of fetchPRs, for the widget w and the
\* message of what was thrown.
fetchPRsCatch(w, message) ==
    LET error == IF message = "" THEN "Failed to fetch PRs" ELSE message IN
    /\ handleAuthError(error)
    /\ widget' = [w EXCEPT !.error = error, !.reported = Append(@, error),
                           !.loading = FALSE, !.pc = "idle", !.who = "",
                           !.call = 0, !.asked = NoFilters]

\* fetchPRs() of the widget w, up to its await of getToken() in call slot c.
fetchPRs(w, c) ==
    IF w.loading
    THEN /\ widget' = w
         /\ obs' = NoObs
         /\ UNCHANGED <<calls, msgs, cleared>>
    ELSE /\ getToken(c)
         /\ widget' = [w EXCEPT !.loading = TRUE, !.error = "", !.pc = "token",
                                !.call = c, !.got401 = FALSE,
                                !.reported = <<>>]

\* The widget's fetchPRs() is called: the refresh or retry button, the
\* refresh timer or setupBehavior.
FetchPRs(c) ==
    /\ ~widget.loading
    /\ fetchPRs(widget, c)
    /\ UNCHANGED <<storage, now, ticks, items>>
    /\ UNCHANGED hostVars

\* fetchPRs after `await ADOAuthHelper.getToken()`.
FetchPRsResume ==
    /\ AwaitSettled
    /\ IF obs.outcome.ok
       THEN /\ widget' = afterToken([widget EXCEPT !.call = 0])
            /\ obs' = NoObs
            /\ UNCHANGED <<storage, msgs, cleared>>
       ELSE fetchPRsCatch(widget, obs.outcome.error)
    /\ UNCHANGED <<now, ticks, calls, items>>
    /\ UNCHANGED hostVars

\* resolveUserId after `await fetch(url, ...)` of the graph users request,
\* and fetchPRs after it when resolveUserId returns.
UsersResponse(r) ==
    /\ widget.pc = "users"
    /\ widget' =
         IF r.kind = "response" /\ responseOk(r) /\ r.body = "nomatch"
         THEN [widget EXCEPT !.pc = "identities"]
         ELSE IF r.kind = "response" /\ responseOk(r) /\ r.body = "match"
         THEN afterLookup([widget EXCEPT
                             !.userIdCache = @ \cup {lookedUp(widget)}])
         ELSE afterLookup(received(widget, r))
    /\ obs' = NoObs
    /\ UNCHANGED <<storage, now, ticks, calls, msgs, items, cleared>>
    /\ UNCHANGED hostVars

\* resolveUserIdViaIdentities after `await fetch(url, ...)`, and fetchPRs
\* after it.
IdentitiesResponse(r) ==
    /\ widget.pc = "identities"
    /\ widget' =
         IF r.kind = "response" /\ responseOk(r) /\ r.body = "match"
         THEN afterLookup([widget EXCEPT
                             !.userIdCache = @ \cup {lookedUp(widget)}])
         ELSE afterLookup(received(widget, r))
    /\ obs' = NoObs
    /\ UNCHANGED <<storage, now, ticks, calls, msgs, items, cleared>>
    /\ UNCHANGED hostVars

\* fetchPRs after `await fetch(this.buildApiUrl(...), ...)`.
PRsResponse(r) ==
    /\ widget.pc = "prs"
    /\ LET failure == fetchPRsFailure(r) IN
       IF failure.thrown
       THEN /\ fetchPRsCatch(received(widget, r), failure.message)
            /\ UNCHANGED items
       ELSE /\ widget' = [widget EXCEPT !.prs = <<widget.asked>>,
                                        !.loading = FALSE, !.pc = "idle",
                                        !.asked = NoFilters]
            /\ setItem(getCacheKey(widget.id),
                       [kind |-> "item", prs |-> <<widget.asked>>])
            /\ obs' = NoObs
            /\ UNCHANGED <<msgs, cleared>>
    /\ UNCHANGED <<now, ticks, calls>>
    /\ UNCHANGED hostVars

\* setConfig(values): the configuration changes, the list and the cached
\* item are dropped, and fetchPRs() is called.
SetConfig(values, c) ==
    /\ ~AwaitSettled
    /\ removeItem(getCacheKey(widget.id))
    /\ fetchPRs([widget EXCEPT !.data = values, !.prs = <<>>], c)
    /\ UNCHANGED <<now, ticks>>
    /\ UNCHANGED hostVars

\* The dashboard's saveWidgets()
SaveWidgets ==
    /\ ~AwaitSettled
    /\ setItem(STORAGE_KEY, [kind |-> "item", prs |-> <<>>])
    /\ obs' = NoObs
    /\ UNCHANGED <<now, ticks, calls, msgs, widget, cleared>>
    /\ UNCHANGED hostVars

\* The dashboard's saveTheme(theme)
SaveTheme(theme) ==
    /\ ~AwaitSettled
    /\ setItem(THEME_STORAGE_KEY, [kind |-> "item", prs |-> <<>>])
    /\ obs' = NoObs
    /\ UNCHANGED <<now, ticks, calls, msgs, widget, cleared>>
    /\ UNCHANGED hostVars

\* What the callback of sendMessage is given in answer to the widget's
\* requests.
WidgetAnswers ==
    { Undefined,
      Obj([accessToken |-> Str("abc"), expiresOn |-> Str("1970-01-01T00:01:00.001Z")]),
      Obj([error |-> Str("Native host error: Native host has exited.. Make sure the native host is installed.")]) }

WidgetInit ==
    /\ console = <<>>
    /\ storage = NoItem
    /\ now = 0
    /\ ticks = 0
    /\ calls = [c \in CallIds |-> IdleCall]
    /\ msgs = <<>>
    /\ obs = NoObs
    /\ HostIdle
    /\ \E data \in WidgetConfigs : widget = NewWidget("widget-1", data)
    /\ items = [k \in ItemKeys |-> NoItem]
    /\ cleared = FALSE

WidgetNext ==
    \/ ~AwaitSettled /\ \E d \in TickSteps : Tick(d) /\ UNCHANGED console
    \/ ~AwaitSettled /\ \E c \in CallIds : GetToken(c) /\ UNCHANGED console
    \/ ~AwaitSettled /\ \E m \in MsgIds, r \in WidgetAnswers : AnyResponse(m, r) /\ UNCHANGED console
    \/ ~AwaitSettled /\ \E m \in MsgIds : ChannelError(m) /\ UNCHANGED console
    \/ \E c \in CallIds : FetchPRs(c) /\ UNCHANGED console
    \/ FetchPRsResume /\ UNCHANGED console
    \/ \E r \in DownstreamResponses : UsersResponse(r) /\ UNCHANGED console
    \/ \E r \in DownstreamResponses : IdentitiesResponse(r) /\ UNCHANGED console
    \/ \E r \in DownstreamResponses : PRsResponse(r) /\ UNCHANGED console

WidgetSpec == WidgetInit /\ [][WidgetNext]_vars

(***************************************************************************)
(* The whole page with the relay: the dashboard, its PR widget as the one  *)
(* consumer of the token, the page's messages and the background script.   *)
(***************************************************************************)
\* What the downstream API answers in this specification.
SystemResponses ==
    { Response(401, ""), Response(404, ""), Response(200, "match"),
      Response(200, "nomatch"), Response(200, "html") }

SystemInit ==
    /\ console = <<>>
    /\ storage = NoItem
    /\ now = 0
    /\ ticks = 0
    /\ calls = [c \in CallIds |-> IdleCall]
    /\ msgs = <<>>
    /\ obs = NoObs
    /\ HostIdle
    /\ \E id \in WidgetIds :
         widget = NewWidget(id, [creatorEmail |-> "", reviewerEmail |-> ""])
    /\ items = [k \in ItemKeys |-> NoItem]
    /\ cleared = FALSE

SystemNext ==
    \/ \E c \in CallIds : FetchPRs(c) /\ UNCHANGED console
    \/ FetchPRsResume /\ UNCHANGED console
    \/ \E r \in SystemResponses : UsersResponse(r) /\ UNCHANGED console
    \/ \E r \in SystemResponses : IdentitiesResponse(r) /\ UNCHANGED console
    \/ \E r \in SystemResponses : PRsResponse(r) /\ UNCHANGED console
    \/ \E values \in WidgetConfigs, c \in CallIds : SetConfig(values, c) /\ UNCHANGED console
    \/ SaveWidgets /\ UNCHANGED console
    \/ \E theme \in {"dark"} : SaveTheme(theme) /\ UNCHANGED console
    \/ \E m \in MsgIds : RelayGetToken(m) /\ UNCHANGED console
    \/ \E m \in MsgIds : RelayConnectThrows(m) /\ UNCHANGED console
    \/ \E m \in MsgIds : RelayClearCache(m) /\ UNCHANGED console
    \/ \E m \in MsgIds, r \in HostResponses : PortOnMessage(m, r) /\ UNCHANGED console
    \/ \E m \in MsgIds, e \in DisconnectErrors : PortOnDisconnect(m, e) /\ UNCHANGED console
    \/ ~AwaitSettled /\ \E m \in MsgIds : PageCallback(m) /\ UNCHANGED console
    \/ ~AwaitSettled /\ \E m \in MsgIds : ChannelError(m) /\ UNCHANGED console

SystemSpec == SystemInit /\ [][SystemNext]_vars

(***************************************************************************)
(* Native host: framing on standard input and output                       *)
(* (src/unnamed/part_005).  Bytes are numbers in 0..255.                   *)
(***************************************************************************)
\* The characters of the request bodies and their UTF-8 codes.
CharCode ==
    [c \in {"{", "}", "\"", ":", "a", "c", "e", "g", "i", "k", "l", "n", "o",
            "t", "u", "x", "T", "G"} |->
        CASE c = "{" -> 123 [] c = "}" -> 125 [] c = "\"" -> 34 [] c = ":" -> 58
          [] c = "a" -> 97 [] c = "c" -> 99 [] c = "e" -> 101 [] c = "g" -> 103
          [] c = "i" -> 105 [] c = "k" -> 107 [] c = "l" -> 108 [] c = "n" -> 110
          [] c = "o" -> 111 [] c = "t" -> 116 [] c = "u" -> 117 [] c = "x" -> 120
          [] c = "T" -> 84 [] c = "G" -> 71]

\* Buffer.from(s, 'utf8')
Utf8(s) == [i \in 1..Len(s) |-> CharCode[Char(s, i)]]

\* buffer.toString('utf8'); a byte that is no character of the model
\* decodes to "?".
RECURSIVE toStringUtf8(_)
toStringUtf8(bytes) ==
    IF Len(bytes) = 0 THEN ""
    ELSE LET cs == {c \in DOMAIN CharCode : CharCode[c] = Head(bytes)} IN
         (IF cs = {} THEN "?" ELSE CHOOSE c \in cs : TRUE)
             \o toStringUtf8(Tail(bytes))

\* header.writeUInt32LE(n, 0)
writeUInt32LE(n) ==
    << n % 256, (n \div 256) % 256, (n \div 65536) % 256, (n \div 16777216) % 256 >>

\* header.readUInt32LE(0), for a buffer of at least 4 bytes
readUInt32LE(b) == b[1] + 256 * b[2] + 65536 * b[3] + 16777216 * b[4]

GetTokenText == "{\"action\":\"getToken\"}"
UnknownActionText == "{\"action\":\"x\"}"
UpperActionText == "{\"action\":\"GetToken\"}"
EmptyObjectText == "{}"
NullText == "null"
NotJsonText == "{\"action"

\* JSON.parse on the strings the host can read in the model: the five
\* texts above it are JSON, every other string (every proper prefix of them,
\* and every string with a "?") is not.
parseRequest(text) ==
    CASE text = GetTokenText ->
            [ok |-> TRUE, value |-> Obj([action |-> Str("getToken")])]
      [] text = UnknownActionText ->
            [ok |-> TRUE, value |-> Obj([action |-> Str("x")])]
      [] text = UpperActionText ->
            [ok |-> TRUE, value |-> Obj([action |-> Str("GetToken")])]
      [] text = EmptyObjectText -> [ok |-> TRUE, value |-> Obj(EmptyProps)]
      [] text = NullText -> [ok |-> TRUE, value |-> Null]
      [] OTHER -> [ok |-> FALSE, value |-> Undefined]

\* One frame: the length of the body in 4 bytes, then the body.
Frame(text) == writeUInt32LE(Len(text)) \o Utf8(text)

\* What the peer writes on standard input before it closes it: a frame, a
\* frame cut short anywhere, a frame followed by the start of another one,
\* and a frame that declares less or more than its body.
HostInputs ==
    { Frame(t) : t \in {GetTokenText, UnknownActionText, UpperActionText,
                        EmptyObjectText, NullText, NotJsonText} }
    \cup { SubSeq(Frame(GetTokenText), 1, k) : k \in 0..(Len(GetTokenText) + 3) }
    \cup { Frame(GetTokenText) \o SubSeq(Frame(UnknownActionText), 1, k) :
             k \in {1, 4, 18} }
    \cup { writeUInt32LE(2) \o Utf8(GetTokenText),
           writeUInt32LE(0) \o Utf8(EmptyObjectText) }

\* The number of characters JSON.stringify escapes in s.
escapes(s) == Cardinality({i \in 1..Len(s) : Char(s, i) \in {"\"", "\\", "\n"}})

\* The length of the JSON of a value (strings, booleans, null).
valueLength(v) ==
    CASE v.type = "string" -> Len(v.str) + escapes(v.str) + 2
      [] v.type = "boolean" -> IF v.bool THEN 4 ELSE 5
      [] OTHER -> 4

RECURSIVE propsLength(_, _)
propsLength(props, keys) ==
    IF keys = {} THEN 0
    ELSE LET k == CHOOSE x \in keys : TRUE IN
         Len(k) + 3 + valueLength(props[k]) + propsLength(props, keys \ {k})

\* Buffer.from(JSON.stringify(message), 'utf8').length
jsonLength(text) ==
    LET v == text.value IN
    IF v.type = "object"
    THEN LET n == Cardinality(DOMAIN v.props) IN
         2 + propsLength(v.props, DOMAIN v.props) + (IF n > 0 THEN n - 1 ELSE 0)
    ELSE valueLength(v)

\* writeMessage(message): the two buffers written to standard output.
writeMessage(message) ==
    LET json == JSONstringify(message)
        length == jsonLength(json)
    IN  << [part |-> "header", bytes |-> writeUInt32LE(length)],
           [part |-> "body", length |-> length, text |-> json] >>

\* process.stdin.read(4): [null, bytes]; at the end of the stream what is
\* left is returned, however short.
read4(buf, eof) ==
    IF Len(buf) >= 4 THEN [null |-> FALSE, bytes |-> SubSeq(buf, 1, 4)]
    ELSE IF eof /\ Len(buf) > 0 THEN [null |-> FALSE, bytes |-> buf]
    ELSE [null |-> TRUE, bytes |-> <<>>]

\* The bytes of a sequence of chunks, one after the other (Buffer.concat).
RECURSIVE concat(_)
concat(chunks) ==
    IF Len(chunks) = 0 THEN <<>> ELSE Head(chunks) \o concat(Tail(chunks))

\* chunks.reduce((sum, c) => sum + c.length, 0)
totalLength(chunks) == Len(concat(chunks))

\* Mutant: the first chunk is taken for the whole body.
bodyComplete_firstChunk(chunks, messageLength) == totalLength(chunks) > 0

\* Whether readMessage takes the chunks read so far for the whole body.
bodyComplete(chunks, messageLength) == totalLength(chunks) >= messageLength

\* The body readMessage parses: buffer.slice(0, messageLength).toString('utf8')
bodyText(chunks, messageLength) ==
    LET buffer == concat(chunks) IN
    toStringUtf8(SubSeq(buffer, 1,
        IF messageLength <= Len(buffer) THEN messageLength ELSE Len(buffer)))

\* A chunk of k more bytes arrives on standard input; 'readable' is emitted.
StdinData(k) ==
    /\ hostPc = "running"
    /\ reader.promise = "pending"
    /\ ~stdin.readable /\ ~stdin.eof
    /\ stdin.nchunks < MaxChunks
    /\ k \in 1..(Len(stdin.input) - stdin.arrived)
    /\ stdin.nchunks = MaxChunks - 1 => k = Len(stdin.input) - stdin.arrived
    /\ stdin' = [stdin EXCEPT
            !.buf = @ \o SubSeq(stdin.input, stdin.arrived + 1, stdin.arrived + k),
            !.arrived = @ + k, !.nchunks = @ + 1, !.readable = TRUE]
    /\ UNCHANGED <<reader, stdout, hostPc, hostLog>>
    /\ UNCHANGED <<pageVars, appVars, cleared>>

\* The peer closes standard input; 'readable' is emitted once more.
StdinEof ==
    /\ hostPc = "running"
    /\ reader.promise = "pending"
    /\ ~stdin.readable /\ ~stdin.eof
    /\ stdin.arrived = Len(stdin.input)
    /\ stdin' = [stdin EXCEPT !.eof = TRUE, !.readable = TRUE]
    /\ UNCHANGED <<reader, stdout, hostPc, hostLog>>
    /\ UNCHANGED <<pageVars, appVars, cleared>>

\* readMessage's 'readable' listener.
OnReadable ==
    /\ hostPc = "running"
    /\ reader.promise = "pending"
    /\ stdin.readable
    /\ LET needHeader == reader.messageLength = -1
           header == read4(stdin.buf, stdin.eof)
           rest == IF needHeader
                   THEN SubSeq(stdin.buf, Len(header.bytes) + 1, Len(stdin.buf))
                   ELSE stdin.buf
           messageLength == IF needHeader THEN readUInt32LE(header.bytes)
                            ELSE reader.messageLength
           chunks == IF Len(rest) > 0 THEN Append(reader.chunks, rest)
                     ELSE reader.chunks
       IN  IF needHeader /\ header.null
           THEN \* if (!header) return;
                /\ stdin' = [stdin EXCEPT !.readable = FALSE]
                /\ UNCHANGED <<reader, hostPc>>
           ELSE IF needHeader /\ Len(header.bytes) < 4
           THEN \* readUInt32LE throws out of the listener: uncaught exception
                /\ stdin' = [stdin EXCEPT !.readable = FALSE, !.buf = <<>>]
                /\ hostPc' = "crashed"
                /\ UNCHANGED reader
           ELSE /\ stdin' = [stdin EXCEPT !.readable = FALSE, !.buf = <<>>]
                /\ UNCHANGED hostPc
                /\ IF Len(rest) > 0 /\ bodyComplete(chunks, messageLength)
                   THEN LET parsed == parseRequest(bodyText(chunks, messageLength)) IN
                        reader' = [messageLength |-> messageLength,
                                   chunks |-> chunks,
                                   promise |-> IF parsed.ok THEN "resolved"
                                               ELSE "rejected",
                                   value |-> IF parsed.ok THEN parsed.value
                                             ELSE Str("Invalid JSON message"),
                                   parsedAt |-> totalLength(chunks)]
                   ELSE reader' = [reader EXCEPT !.messageLength = messageLength,
                                                 !.chunks = chunks]
    /\ UNCHANGED <<stdout, hostLog>>
    /\ UNCHANGED <<pageVars, appVars, cleared>>

\* readMessage's 'end' listener: the stream has ended and all of it has
\* been read.
OnEnd ==
    /\ hostPc = "running"
    /\ reader.promise = "pending"
    /\ stdin.eof /\ ~stdin.readable /\ ~stdin.ended
    /\ Len(stdin.buf) = 0
    /\ stdin' = [stdin EXCEPT !.ended = TRUE]
    /\ reader' = [reader EXCEPT !.promise = "rejected",
                                !.value = Str("stdin closed")]
    /\ UNCHANGED <<stdout, hostPc, hostLog>>
    /\ UNCHANGED <<pageVars, appVars, cleared>>

\* `${v}` for the values of the model
templateString(v) ==
    CASE v.type = "string" -> v.str
      [] v.type = "undefined" -> "undefined"
      [] v.type = "null" -> "null"
      [] OTHER -> "[object Object]"

\* Mutant: a read that failed is taken for a getToken request.
mainResult_fetchOnReject(promise, value, e) ==
    IF promise = "rejected"
    THEN hostGetToken(e)
    ELSE IF GetThrows(value)
    THEN [result |-> Obj([error |->
                Str("Cannot read properties of null (reading 'action')")]),
          log |-> <<>>]
    ELSE IF Get(value, "action") = Str("getToken")
    THEN hostGetToken(e)
    ELSE [result |-> Obj([error |->
                Str("Unknown action: " \o templateString(Get(value, "action")))]),
          log |-> <<>>]

\* Mutant: the action is compared without regard to case.
mainResult_ignoreCase(promise, value, e) ==
    IF promise = "rejected"
    THEN [result |-> Obj([error |-> value]), log |-> <<>>]
    ELSE IF GetThrows(value)
    THEN [result |-> Obj([error |->
                Str("Cannot read properties of null (reading 'action')")]),
          log |-> <<>>]
    ELSE IF Get(value, "action").type = "string"
            /\ toLowerCase(Get(value, "action").str) = "gettoken"
    THEN hostGetToken(e)
    ELSE [result |-> Obj([error |->
                Str("Unknown action: " \o templateString(Get(value, "action")))]),
          log |-> <<>>]

\* main() after `await readMessage()`, in environment e: [result, log].
mainResult(promise, value, e) ==
    IF promise = "rejected"
    THEN [result |-> Obj([error |-> value]), log |-> <<>>]
    ELSE IF GetThrows(value)
    THEN [result |-> Obj([error |->
                Str("Cannot read properties of null (reading 'action')")]),
          log |-> <<>>]
    ELSE IF Get(value, "action") = Str("getToken")
    THEN hostGetToken(e)
    ELSE [result |-> Obj([error |->
                Str("Unknown action: " \o templateString(Get(value, "action")))]),
          log |-> <<>>]

\* main() resumes when readMessage's promise is settled, writes its
\* response and exits.
MainResume(e) ==
    /\ hostPc = "running"
    /\ reader.promise # "pending"
    /\ LET r == mainResult(reader.promise, reader.value, e) IN
       /\ stdout' = stdout \o writeMessage(r.result)
       /\ hostLog' = hostLog \o r.log
    /\ hostPc' = "exited"
    /\ UNCHANGED <<stdin, reader>>
    /\ UNCHANGED <<pageVars, appVars, cleared>>

HostInit ==
    /\ console = <<>>
    /\ storage = NoItem
    /\ now = 0
    /\ ticks = 0
    /\ calls = [c \in CallIds |-> IdleCall]
    /\ msgs = <<>>
    /\ obs = NoObs
    /\ \E input \in HostInputs :
         stdin = [input |-> input, arrived |-> 0, nchunks |-> 0, buf |-> <<>>,
                  eof |-> FALSE, readable |-> FALSE, ended |-> FALSE]
    /\ reader = [messageLength |-> -1, chunks |-> <<>>, promise |-> "pending",
                 value |-> Undefined, parsedAt |-> -1]
    /\ stdout = <<>>
    /\ hostPc = "running"
    /\ hostLog = <<>>
    /\ AppIdle

HostNext ==
    \/ \E k \in 1..(Len(stdin.input)) : StdinData(k) /\ UNCHANGED console
    \/ StdinEof /\ UNCHANGED console
    \/ OnReadable /\ UNCHANGED console
    \/ OnEnd /\ UNCHANGED console
    \/ \E e \in HostEnvs : MainResume(e) /\ UNCHANGED console

HostSpec == HostInit /\ [][HostNext]_vars

(***************************************************************************)
(* What the page and the relay write to the console                        *)
(* (src/src/ADOAuthHelper.js, src/unnamed/part_000).  A record is the      *)
(* sequence of the arguments of one console.log or console.error call.     *)
(* The native host (src/unnamed/part_005) has no console call: what it     *)
(* writes to standard output is the protocol's frames.                     *)
(***************************************************************************)
\* A number among the arguments of a record.
Number(x) == [type |-> "number", nan |-> x.nan, n |-> x.n]

\* Math.round(x / 1000)
RoundSeconds(x) == IF x.nan THEN NaN ELSE Num((x.n + 500) \div 1000)

\* An Error object with this message.
ErrorObject(message) == Obj([message |-> Str(message)])

\* The message of the SyntaxError JSON.parse throws for a text that is not
\* JSON: it quotes the beginning of the text.
syntaxErrorMessage(raw) ==
    IF Len(raw) <= 10
    THEN "Unexpected token '" \o Char(raw, 1) \o "', \"" \o raw
            \o "\" is not valid JSON"
    ELSE "Unexpected token '" \o Char(raw, 1) \o "', \"" \o SubSeq(raw, 1, 10)
            \o "\"... is not valid JSON"

\* The records of getCachedToken().
getCachedTokenLog(st) ==
    IF st.kind = "none" \/ (st.kind = "notjson" /\ st.raw = "")
    THEN << <<Str("[ADOAuthHelper] No cached token in localStorage")>> >>
    ELSE LET p == JSONparse(st) IN
         IF ~p.ok
         THEN << <<Str("[ADOAuthHelper] Error reading cache:"),
                   ErrorObject(syntaxErrorMessage(st.raw))>> >>
         ELSE IF GetThrows(p.value)
         THEN << <<Str("[ADOAuthHelper] Error reading cache:"),
                   ErrorObject("Cannot read properties of null (reading 'accessToken')")>> >>
         ELSE IF ~Truthy(Get(p.value, "accessToken"))
                 \/ ~Truthy(Get(p.value, "expiresOn"))
         THEN << <<Str("[ADOAuthHelper] Cached token missing accessToken or expiresOn")>> >>
         ELSE << <<Str("[ADOAuthHelper] Found cached token, expiresOn:"),
                   Get(p.value, "expiresOn")>> >>

\* The records of isTokenValid() at time t.
isTokenValidLog(st, t) ==
    LET cached == getCachedToken(st) IN
    getCachedTokenLog(st) \o
    IF ~Truthy(cached)
    THEN << <<Str("[ADOAuthHelper] isTokenValid: no cached token")>> >>
    ELSE LET timeRemaining ==
                 Minus(DateGetTime(Get(cached, "expiresOn")), Num(t))
         IN  << <<Str("[ADOAuthHelper] isTokenValid:"), Bool(isTokenValid(st, t)),
                  Str("| expires in:"), Number(RoundSeconds(timeRemaining)),
                  Str("seconds"), Str("| buffer:"),
                  Number(Num(TOKEN_EXPIRY_BUFFER_MS \div 1000)), Str("seconds")>> >>

\* The records of getValidToken() at time t.
getValidTokenLog(st, t) ==
    isTokenValidLog(st, t) \o
    (IF isTokenValid(st, t) THEN getCachedTokenLog(st) ELSE <<>>)

\* The records of sendMessage(message) up to chrome.runtime.sendMessage.
sendMessageLog(type) ==
    << <<Str("[ADOAuthHelper] Sending message to background:"), Str(type)>> >> \o
    (IF ExtensionApiAvailable THEN <<>>
     ELSE << <<Str("[ADOAuthHelper] Chrome API not available")>> >>)

\* The records of getToken() up to its return or its await.
getTokenLog(st, t) ==
    << <<Str("[ADOAuthHelper] getToken() called")>> >> \o
    getValidTokenLog(st, t) \o
    (IF Truthy(getValidToken(st, t))
     THEN << <<Str("[ADOAuthHelper] Using valid cached token")>> >>
     ELSE << <<Str("[ADOAuthHelper] No valid cached token, requesting from background...")>> >>
          \o sendMessageLog("ADO_GET_TOKEN"))

\* The record of the callback of sendMessage.
sendMessageCallbackLog(lastError, response) ==
    IF Truthy(lastError)
    THEN << <<Str("[ADOAuthHelper] Chrome runtime error:"), lastError>> >>
    ELSE IF Truthy(Get(response, "error"))
    THEN << <<Str("[ADOAuthHelper] Background returned error:"),
              Get(response, "error")>> >>
    ELSE IF ~Truthy(response)
    THEN << <<Str("[ADOAuthHelper] No response from background")>> >>
    ELSE << <<Str("[ADOAuthHelper] Got response from background")>> >>

\* The records of getToken() after `await this.sendMessage(...)`.
getTokenResumeLog(settled) ==
    IF ~settled.resolved
    THEN << <<Str("[ADOAuthHelper] Error from background:"), Str(settled.error)>> >>
    ELSE << <<Str("[ADOAuthHelper] Background response:"),
              Str(IF Truthy(Get(settled.value, "accessToken"))
                  THEN "got token" ELSE "no token"),
              Str("| expiresOn:"), Get(settled.value, "expiresOn")>> >> \o
         (IF getTokenResume(settled).cache
          THEN << <<Str("[ADOAuthHelper] Token cached successfully")>> >>
          ELSE <<>>)

\* The records of the callback of sendMessage for message m and of the
\* continuation of the getToken() call that awaits it, if one does.
callbackLog(m, lastError, response) ==
    sendMessageCallbackLog(lastError, response) \o
    (IF msgs[m].caller = 0 THEN <<>>
     ELSE getTokenResumeLog(sendMessageSettle(lastError, response)))

\* The records of handleAuthError(errorMessage).
handleAuthErrorLog(errorMessage) ==
    IF isAuthErrorOf[errorMessage]
    THEN sendMessageLog("ADO_CLEAR_TOKEN_CACHE")
    ELSE <<>>

\* The relay's onMessage listener: its first record.
listenerLog(type) ==
    << <<Str("[background] Received message:"), Str(type)>> >>

\* The relay's record of the result it passes to sendResponse.
resultLog(result) ==
    << <<Str("[background] Native host result:"),
         Str(IF Truthy(Get(result, "error"))
             THEN "error: " \o Get(result, "error").str \o " " \o
                  (IF Truthy(Get(result, "details"))
                   THEN Get(result, "details").str ELSE "")
             ELSE "success")>> >>

\* The records of getAzureDevOpsToken() up to port.postMessage.
connectLog ==
    << <<Str("[background] Getting token from native host...")>>,
       <<Str("[background] Connecting to native host:"), Str(NATIVE_HOST_NAME)>> >>

\* Mutant: the relay logs the response when it holds a token.
portOnMessageLog_response(response) ==
    << <<Str("[background] Native host response received")>>,
       <<Str("[background] Invalid response from native host:"), response>> >>

\* The records of the relay's port.onMessage listener.
portOnMessageLog(response) ==
    << <<Str("[background] Native host response received")>> >> \o
    (IF Truthy(Get(response, "error"))
     THEN << <<Str("[background] Native host error:"), Get(response, "error"),
               IF Truthy(Get(response, "details"))
               THEN Get(response, "details") ELSE Str("")>> >>
     ELSE IF Truthy(Get(response, "accessToken"))
     THEN << <<Str("[background] Got token, expiresOn:"),
               Get(response, "expiresOn")>> >>
     ELSE << <<Str("[background] Invalid response from native host:"),
               response>> >>)

\* The records of the relay's port.onDisconnect listener.
portOnDisconnectLog(error) ==
    IF Truthy(error)
    THEN << <<Str("[background] Native host disconnected with error:"), error>> >>
         \o resultLog(relayOnPortDisconnect(error).value)
    ELSE <<>>

\* What the relay's port receives from a run of the host here: every kind
\* of success and of error response the host writes in the environments of
\* the model.
LoggedHostEnvs ==
    { e \in HostEnvs :
        /\ e.platform = "linux"
        /\ e.version \in {"ok", "fail"}
        /\ e.exists = {}
        /\ e.account \in {"ok", "fail"}
        /\ e.fetch \in {"ok", "fail"}
        /\ e.out.raw \notin {"abc 1970-01-01T00:02:00.000Z", "null"}
              \/ e.account = "fail" \/ e.fetch = "fail" \/ e.version = "fail" }

LoggedHostResponses == { Wire(hostGetToken(e).result) : e \in LoggedHostEnvs }

\* The messages handleAuthError is called with here: one that is an auth
\* error and one that is not.
LoggedErrorMessages ==
    { "Authentication failed. Try running: az login",
      "Project or repository not found." }

\* The page and the relay, each step with the records it writes.
LogNext ==
    \/ \E d \in TickSteps : Tick(d) /\ console' = <<>>
    \/ \E c \in {1} : GetToken(c) /\ console' = getTokenLog(storage, now)
    \/ \E e \in LoggedErrorMessages :
          HandleAuthError(e) /\ console' = handleAuthErrorLog(e)
    \/ \E m \in MsgIds :
          /\ RelayGetToken(m)
          /\ console' = listenerLog(msgs[m].type) \o connectLog \o
                << <<Str("[background] Sending getToken request to native host")>> >>
    \/ \E m \in MsgIds :
          /\ RelayConnectThrows(m)
          /\ console' = listenerLog(msgs[m].type) \o connectLog \o
                << <<Str("[background] Exception connecting to native host:"),
                     ErrorObject(Get(msgs'[m].response, "error").str)>> >> \o
                resultLog(msgs'[m].response)
    \/ \E m \in MsgIds :
          /\ RelayClearCache(m)
          /\ console' = listenerLog(msgs[m].type) \o
                << <<Str("[background] Clear token cache requested")>> >>
    \/ \E m \in MsgIds, r \in LoggedHostResponses :
          /\ PortOnMessage(m, r)
          /\ console' = portOnMessageLog(r) \o resultLog(relayOnPortMessage(r))
    \/ \E m \in MsgIds, e \in DisconnectErrors :
          PortOnDisconnect(m, e) /\ console' = portOnDisconnectLog(e)
    \/ \E m \in MsgIds :
          /\ PageCallback(m)
          /\ console' = callbackLog(m, Undefined, msgs[m].response)
    \/ \E m \in MsgIds :
          /\ ChannelError(m)
          /\ console' = callbackLog(m,
                Str("The message port closed before a response was received."),
                Undefined)

LogSpec == Init /\ [][LogNext]_vars

(***************************************************************************)
(* findAzCli() of the host, called in any state of the disk.               *)
(***************************************************************************)
\* Every path findAzCli looks for on one platform or the other.
AllCandidatePaths ==
    {WindowsPaths[i] : i \in 1..Len(WindowsPaths)}
    \cup {PosixPaths[i] : i \in 1..Len(PosixPaths)}

\* The environments findAzCli is called in: either platform, any outcome of
\* the version check, up to MaxExisting candidate paths on disk.
LocatorEnvs ==
    { [BaseEnv EXCEPT !.platform = pl, !.version = v, !.exists = ex] :
        pl \in {"linux", "win32"}, v \in {"ok", "fail", "timeout"},
        ex \in {x \in SUBSET AllCandidatePaths : Cardinality(x) <= MaxExisting} }

\* findAzCli() is called in environment e.
FindAzCliCall(e) ==
    /\ obs' = [op |-> "findAzCli", env |-> e, ret |-> findAzCli(e).path]
    /\ UNCHANGED <<storage, now, ticks, calls, msgs>>
    /\ UNCHANGED <<hostVars, appVars, cleared>>

LocatorNext == \E e \in LocatorEnvs : FindAzCliCall(e) /\ UNCHANGED console

LocatorSpec == Init /\ [][LocatorNext]_vars

(***************************************************************************)
(* Properties.                                                             *)
(***************************************************************************)
\* The access tokens and the well-formed entries of the model.
TokenNames == {"abc", "old"}
EntryText(a, x) ==
    JSONstringify(Obj([accessToken |-> Str(a), expiresOn |-> Str(x)]))

\* The slot st holds an entry with access token a that expires more than
\* 60 seconds after t.
HoldsValidEntry(st, t, a) ==
    \E x \in DOMAIN IsoMillis :
        st = EntryText(a, x) /\ IsoMillis[x] - t > 60000

HoldsSomeValidEntry(st, t) == \E a \in TokenNames : HoldsValidEntry(st, t, a)

\* C1: isTokenValid() returns true exactly when the slot holds an entry
\* whose expiresOn is strictly more than 60 seconds after the current time;
\* it returns false for an absent (or unreadable) entry and for an entry
\* expiring exactly 60 seconds ahead, less than that, or in the past.
C1_isTokenValid ==
    obs.op = "isTokenValid" => (obs.ret <=> HoldsSomeValidEntry(storage, now))

\* isTokenValid() has answered false for an entry expiring in exactly 60 s.
C1_Witness ==
    /\ obs.op = "isTokenValid"
    /\ storage = EntryText("abc", "1970-01-01T00:01:00.001Z")
    /\ now = 1
    /\ ~obs.ret

\* C2: when the slot holds a valid entry at the moment getToken() is
\* called, getToken() returns that entry's accessToken and sends no message.
C2_ValidEntryNoMessage ==
    [][\A c \in CallIds, a \in TokenNames :
          (GetToken(c) /\ HoldsValidEntry(storage, now, a)) =>
              /\ obs'.done
              /\ obs'.outcome = Returned(Str(a))
              /\ obs'.sent = 0
              /\ msgs' = msgs
              /\ calls' = calls]_vars

\* getToken() has returned the token of a valid entry.
C2_Witness ==
    /\ obs.op = "getToken"
    /\ obs.done
    /\ obs.outcome = Returned(Str("abc"))
    /\ HoldsValidEntry(storage, now, "abc")
    /\ msgs = <<>>

\* The requests in flight that call c has sent.
RequestsOf(c) ==
    {m \in MsgIds : msgs[m].caller = c /\ msgs[m].type = "ADO_GET_TOKEN"}

SuccessResponse(r) ==
    /\ r.type = "object"
    /\ Truthy(Get(r, "accessToken"))
    /\ Truthy(Get(r, "expiresOn"))
    /\ ~Truthy(Get(r, "error"))

GetTokenCompleted ==
    \/ obs.op = "getToken" /\ obs.done
    \/ obs.op = "callback" /\ obs.call # 0 /\ obs.done

\* C5: getToken() never completes successfully with an empty or undefined
\* token: whatever the answer to its request, it returns a non-empty access
\* token or fails with an explicit error.
C5_TokenOrError ==
    GetTokenCompleted =>
        IF obs.outcome.ok
        THEN obs.outcome.value.type = "string" /\ obs.outcome.value.str # ""
        ELSE obs.outcome.error # ""

\* getToken() has failed on an answer with an access token and no expiry.
C5_Witness ==
    /\ obs.op = "callback"
    /\ obs.call # 0
    /\ obs.response = Obj([accessToken |-> Str("abc")])
    /\ obs.outcome = Thrown(NoTokenMessage)

\* The messages of the model whose lower-cased text contains a keyword.
AuthMessages ==
    { "Authentication failed. Try running: az login", "HTTP 401", "Unauthorized" }

C7_NonAuthErrorFrame ==
    [][\A e \in ErrorMessages :
          (HandleAuthError(e) /\ ~obs'.ret) =>
              storage' = storage /\ msgs' = msgs]_vars

\* handleAuthError has returned false while the slot held an entry.
C7_Witness ==
    /\ obs.op = "handleAuthError"
    /\ obs.message = "Project or repository not found."
    /\ ~obs.ret
    /\ storage = EntryText("abc", "1970-01-01T00:01:00.001Z")
    /\ msgs = <<>>

\* C8: every ADO_GET_TOKEN request the relay has accepted is answered once
\* its native port has closed, with or without a runtime error reported on
\* the disconnect; the request is never left pending.
C8_ClosedPortAnswered ==
    \A m \in MsgIds :
        (msgs[m].type = "ADO_GET_TOKEN" /\ msgs[m].port = "closed") =>
            msgs[m].chan = "responded"

\* The frames on standard output: a 4-byte header first, then a body of the
\* length the header states.
OneFrame(out) ==
    /\ Len(out) = 2
    /\ out[1].part = "header"
    /\ out[2].part = "body"
    /\ Len(out[1].bytes) = 4
    /\ readUInt32LE(out[1].bytes) = out[2].length

\* C9: whatever arrives on standard input, a run of the host that has
\* ended has written exactly one response frame.
C9_OneResponseFrame ==
    hostPc \in {"exited", "crashed"} => OneFrame(stdout)

\* The request readMessage gives when the whole body arrives in one chunk.
OneChunkRequest(input) ==
    LET N == readUInt32LE(SubSeq(input, 1, 4)) IN
    parseRequest(bodyText(<<SubSeq(input, 5, Len(input))>>, N))

\* C10: readMessage does not parse the body of a frame of declared length N
\* before N bytes of body have arrived, and in however many chunks the body
\* arrives, the request is the one parsed when it arrives in one chunk.
C10_ChunkedRead ==
    reader.parsedAt # -1 =>
        /\ reader.parsedAt >= reader.messageLength
        /\ reader.messageLength = readUInt32LE(SubSeq(stdin.input, 1, 4))
        /\ LET one == OneChunkRequest(stdin.input) IN
           IF one.ok
           THEN reader.promise = "resolved" /\ reader.value = one.value
           ELSE reader.promise = "rejected"

\* The getToken request has been parsed from a body that came in two chunks.
C10_Witness ==
    /\ stdin.input = Frame(GetTokenText)
    /\ Len(reader.chunks) = 2
    /\ reader.promise = "resolved"
    /\ reader.value = Obj([action |-> Str("getToken")])

\* The slot st holds JSON of an object whose accessToken and expiresOn are
\* both non-empty strings.
HoldsEntry(st) ==
    /\ st.kind = "json"
    /\ st.value.type = "object"
    /\ {"accessToken", "expiresOn"} \subseteq DOMAIN st.value.props
    /\ \A k \in {"accessToken", "expiresOn"} :
          st.value.props[k].type = "string" /\ st.value.props[k].str # ""

\* C11: getCachedToken() never throws: whatever the slot holds (nothing,
\* text that is not JSON, JSON null or a non-object, an object without
\* accessToken or expiresOn or with an empty one) it returns null, and it
\* returns the stored entry only when both fields are non-empty.
C11_getCachedTokenTotal ==
    obs.op = "getCachedToken" =>
        IF HoldsEntry(storage)
        THEN obs.ret = storage.value
        ELSE obs.ret = Null

\* getCachedToken() has returned null on truncated JSON.
C11_Witness ==
    /\ obs.op = "getCachedToken"
    /\ storage = NotJson("{\"accessToken\":\"ab")
    /\ obs.ret = Null

\* readMessage has given main the request {action: "getToken"}.
GetTokenRequested ==
    reader.promise = "resolved" /\ reader.value = Obj([action |-> Str("getToken")])

\* The candidate paths of a platform.
CandidatePaths(platform) ==
    IF platform = "win32"
    THEN {WindowsPaths[i] : i \in 1..Len(WindowsPaths)}
    ELSE {PosixPaths[i] : i \in 1..Len(PosixPaths)}

\* In environment e the bare command does not run and no candidate path
\* of the platform exists.
LocatorNotFound(e) ==
    e.version # "ok" /\ CandidatePaths(e.platform) \cap e.exists = {}

\* The messages of the host's tool-not-found error, with their installation
\* pointers.
ToolNotFoundMessages ==
    { "Azure CLI (az) not found. Install from https://aka.ms/installazurecliwindows",
      "Azure CLI (az) not found. Install from https://aka.ms/InstallAzureCLIDeb" }

\* The value of the response frame on standard output.
ResponseOf(out) == out[2].text.value

\* How the page's getToken() ends when the host has written response r:
\* the relay's port.onMessage, sendResponse, the callback of sendMessage and
\* the continuation of getToken.
PageOutcome(r) ==
    getTokenResume(sendMessageSettle(Undefined, Wire(relayOnPortMessage(Wire(r))))).outcome

ErrorKinds ==
    { "tool-not-found", "not-logged-in", "timeout", "malformed-output",
      "unknown-action", "unclassified-failure" }

\* C13: every error response the host writes carries a kind, apart from
\* its message, that is one of the six categories.
C13_ErrorHasKind ==
    (hostPc = "exited" /\ Truthy(Get(ResponseOf(stdout), "error"))) =>
        /\ Get(ResponseOf(stdout), "kind").type = "string"
        /\ Get(ResponseOf(stdout), "kind").str \in ErrorKinds

\* In environment e an invocation the host makes on a getToken request
\* runs into its timeout.
InvocationTimesOut(e) ==
    \/ e.version = "timeout"
    \/ /\ ~LocatorNotFound(e)
       /\ \/ e.account = "timeout"
          \/ e.account = "ok" /\ e.fetch = "timeout"

\* C14: a timeout of the version check, of the login probe or of the token
\* fetch is never reported as tool-not-found, as not-logged-in or as a
\* generic failure of the token fetch.
C14_TimeoutNotConflated ==
    [][\A e \in HostEnvs :
          (MainResume(e) /\ GetTokenRequested /\ InvocationTimesOut(e)) =>
              Get(ResponseOf(stdout'), "error") \notin
                  ( { Str(m) : m \in ToolNotFoundMessages }
                    \cup { Str("Not logged in to Azure CLI. Open a terminal and run: az login"),
                           Str("Failed to get access token") } )]_vars

\* In environment e the token fetch is reached and exits successfully with
\* output that parses and has no accessToken or an empty one.
FetchGivesNoToken(e) ==
    /\ ~LocatorNotFound(e)
    /\ e.account = "ok"
    /\ e.fetch = "ok"
    /\ e.out.text.kind = "json"
    /\ e.out.text.value.type \in {"object", "null"}
    /\ e.out.text.value.type = "object" =>
          \/ "accessToken" \notin DOMAIN e.out.text.value.props
          \/ e.out.text.value.props.accessToken = Str("")

\* C15: when the token fetch exits successfully and its parsed output has
\* an empty or missing accessToken, the host responds with an error and
\* never with a success response.
C15_EmptyTokenIsError ==
    [][\A e \in HostEnvs :
          (MainResume(e) /\ GetTokenRequested /\ FetchGivesNoToken(e)) =>
              /\ Len(stdout') = 2
              /\ Truthy(Get(ResponseOf(stdout'), "error"))
              /\ "accessToken" \notin DOMAIN ResponseOf(stdout').props]_vars

\* The host has answered with the empty-token error after a token fetch
\* whose output had no accessToken.
C15_Witness ==
    /\ hostPc = "exited"
    /\ GetTokenRequested
    /\ hostLog = <<"version", "account show", "get-access-token">>
    /\ ResponseOf(stdout) =
          Obj([error |-> Str("Empty token received. Try running: az login"),
               details |-> Str("missing")])

\* The response the protocol prescribes for a request object whose action
\* is not getToken.
UnknownActionResponse(request) ==
    Obj([error |-> Str("Unknown action: " \o
            (CASE request = Obj([action |-> Str("x")]) -> "x"
               [] request = Obj([action |-> Str("GetToken")]) -> "GetToken"
               [] request = Obj(EmptyProps) -> "undefined"))])

\* C16: a request whose action is anything other than getToken is answered
\* {error: "Unknown action: <value>"}, and the host invokes neither the
\* locator nor any subprocess for it.
C16_UnknownAction ==
    [][\A e \in HostEnvs :
          (/\ MainResume(e)
           /\ reader.promise = "resolved"
           /\ reader.value.type = "object"
           /\ reader.value # Obj([action |-> Str("getToken")])) =>
              /\ Len(stdout') = 2
              /\ ResponseOf(stdout') = UnknownActionResponse(reader.value)
              /\ hostLog' = <<>>]_vars

\* The host has answered {action: "GetToken"} with the unknown-action error.
C16_Witness ==
    /\ hostPc = "exited"
    /\ reader.value = Obj([action |-> Str("GetToken")])
    /\ hostLog = <<>>
    /\ ResponseOf(stdout) = Obj([error |-> Str("Unknown action: GetToken")])

\* Every message but m is as it was.
OthersUnchanged(m) ==
    /\ Len(msgs') = Len(msgs)
    /\ \A n \in MsgIds : n # m => msgs'[n] = msgs[n]

\* Message m has been answered with response r and is otherwise as it was,
\* its port in state p.
AnsweredWith(m, r, p) ==
    msgs'[m] = [msgs[m] EXCEPT !.chan = "responded", !.response = r, !.port = p]

\* C17: overlapping ADO_GET_TOKEN requests each have their own host
\* connection: a request is connected, answered from its port's message and
\* failed by its port's disconnect or by a failing connect on its own, with
\* the caller it came from, and every other request is left as it was.
C17_RequestsIndependent ==
    /\ [][\A m \in MsgIds :
            RelayGetToken(m) =>
                /\ msgs[m].port = "none"
                /\ msgs'[m] = [msgs[m] EXCEPT !.chan = "received", !.port = "open",
                                   !.posted = <<Obj([action |-> Str("getToken")])>>]
                /\ OthersUnchanged(m)]_vars
    /\ [][\A m \in MsgIds, r \in HostResponses :
            PortOnMessage(m, r) =>
                AnsweredWith(m, r, "closed") /\ OthersUnchanged(m)]_vars
    /\ [][\A m \in MsgIds :
            PortOnDisconnect(m, Str("Native host has exited.")) =>
                /\ AnsweredWith(m, Obj([error |-> Str(
                      "Native host error: Native host has exited.. Make sure the native host is installed.")]),
                      "closed")
                /\ OthersUnchanged(m)]_vars
    /\ [][\A m \in MsgIds :
            RelayConnectThrows(m) =>
                /\ AnsweredWith(m, Obj([error |-> Str(
                      "Access to native messaging host is forbidden.")]), "none")
                /\ OthersUnchanged(m)]_vars

\* Two overlapping requests, of different calls, have been answered: the
\* first with the error of its disconnected port, the second with the token
\* of its host.
C17_Witness ==
    /\ Len(msgs) = 2
    /\ msgs[1].type = "ADO_GET_TOKEN" /\ msgs[2].type = "ADO_GET_TOKEN"
    /\ msgs[1].caller # msgs[2].caller
    /\ msgs[1].chan = "responded" /\ msgs[2].chan = "responded"
    /\ Truthy(Get(msgs[1].response, "error"))
    /\ Get(msgs[2].response, "accessToken") = Str("abc")

\* C18: for each ADO_GET_TOKEN request the relay posts exactly one
\* {action: "getToken"} on its port, answers the request once, with what the
\* host returned (the same accessToken and expiresOn, or the same error and
\* details), and the port is disconnected once the response has arrived.
C18_RelayForwards ==
    /\ [][\A m \in MsgIds, r \in HostResponses :
            PortOnMessage(m, r) =>
                /\ msgs[m].chan = "received"
                /\ msgs'[m].chan = "responded"
                /\ msgs'[m].response = r
                /\ msgs'[m].port = "closed"]_vars
    /\ [](\A m \in MsgIds :
            msgs[m].type = "ADO_GET_TOKEN" =>
                /\ msgs[m].port # "none" =>
                      msgs[m].posted = <<Obj([action |-> Str("getToken")])>>
                /\ msgs[m].port = "none" => msgs[m].posted = <<>>
                /\ msgs[m].chan = "responded" => msgs[m].port # "open")

\* The relay has answered a request with the host's not-logged-in error,
\* details included, after one getToken message on a port now closed.
C18_Witness ==
    \E m \in MsgIds :
        /\ msgs[m].chan = "responded"
        /\ msgs[m].port = "closed"
        /\ msgs[m].posted = <<Obj([action |-> Str("getToken")])>>
        /\ Get(msgs[m].response, "error") =
              Str("Not logged in to Azure CLI. Open a terminal and run: az login")
        /\ Truthy(Get(msgs[m].response, "details"))

\* C19: an ADO_CLEAR_TOKEN_CACHE request is answered {success: true} in
\* the listener itself, opens no host connection and changes nothing else
\* at the relay, so the requests around it are as without it.
C19_ClearAcknowledged ==
    /\ [][\A m \in MsgIds :
            RelayClearCache(m) =>
                /\ AnsweredWith(m, Obj([success |-> Bool(TRUE)]), "none")
                /\ OthersUnchanged(m)
                /\ UNCHANGED <<storage, calls>>]_vars
    /\ [](\A m \in MsgIds :
            msgs[m].type = "ADO_CLEAR_TOKEN_CACHE" =>
                /\ msgs[m].port = "none"
                /\ msgs[m].posted = <<>>
                /\ msgs[m].chan \in {"sent", "responded"}
                /\ msgs[m].chan = "responded" =>
                      msgs[m].response = Obj([success |-> Bool(TRUE)]))

\* A clear request has been acknowledged while a token request is waiting
\* for its host.
C19_Witness ==
    /\ Len(msgs) = 2
    /\ msgs[1].type = "ADO_GET_TOKEN"
    /\ msgs[1].port = "open"
    /\ msgs[2].type = "ADO_CLEAR_TOKEN_CACHE"
    /\ msgs[2].chan = "responded"
    /\ msgs[2].response = Obj([success |-> Bool(TRUE)])

\* The messages of a type in flight that call c has sent.
SentBy(c, type) == {m \in MsgIds : msgs[m].caller = c /\ msgs[m].type = type}

PendingGetToken == {c \in CallIds : calls[c].op = "getToken"}

\* C22: getToken() calls that overlap while the slot holds no valid entry are
\* not coalesced: a call made while another one is waiting sends its own
\* ADO_GET_TOKEN request and leaves the other's alone, there are as many
\* requests in flight as calls waiting, one per call, and the relay posts
\* one request to the native host, on a port of its own, for each.
C22_NoCoalescing ==
    /\ [][\A c \in CallIds :
            (/\ GetToken(c)
             /\ PendingGetToken # {}
             /\ ~Truthy(getValidToken(storage, now))) =>
                /\ msgs' = Append(msgs, NewMessage("ADO_GET_TOKEN", c))
                /\ PendingGetToken' = PendingGetToken \cup {c}]_vars
    /\ [](/\ \A c \in PendingGetToken : Cardinality(SentBy(c, "ADO_GET_TOKEN")) = 1
          /\ Cardinality({m \in MsgIds : msgs[m].type = "ADO_GET_TOKEN"})
                = Cardinality(PendingGetToken))
    /\ [](\A m \in MsgIds :
            msgs[m].port = "open" =>
                msgs[m].posted = <<Obj([action |-> Str("getToken")])>>)

\* Two getToken() calls are waiting, and the relay has opened a port and
\* posted a request for each of them.
C22_Witness ==
    /\ PendingGetToken = {1, 2}
    /\ Len(msgs) = 2
    /\ \A m \in MsgIds :
          /\ msgs[m].type = "ADO_GET_TOKEN"
          /\ msgs[m].caller = m
          /\ msgs[m].port = "open"
    /\ storage = NoItem

\* C24: clearCache() is idempotent: it can be called in every state, the
\* slot is absent after it whatever it held, a second call leaves the slot
\* as the first one left it, and getCachedToken() returns null afterwards.
C24_ClearCacheIdempotent ==
    /\ [](ENABLED ClearCacheCall)
    /\ [][ClearCacheCall =>
            /\ storage' = NoItem
            /\ (storage = NoItem => storage' = storage)
            /\ getCachedToken(storage') = Null]_vars
    /\ [](obs.op = "clearCache" =>
            /\ storage = NoItem
            /\ getCachedToken(storage) = Null
            /\ ~isTokenValid(storage, now))

\* clearCache() has been called on an absent slot.
C24_Witness ==
    /\ obs.op = "clearCache"
    /\ obs.before = NoItem
    /\ storage = NoItem

DeclaredLength == readUInt32LE(SubSeq(stdin.input, 1, 4))

\* Standard input carries a whole header and fewer body bytes than the
\* header declares, and then ends.
BodyCutShort ==
    /\ Len(stdin.input) >= 4
    /\ Len(stdin.input) - 4 < DeclaredLength

\* C26: when standard input ends before the declared body length has been
\* received, no request is parsed, neither the locator nor the identity tool
\* is invoked, the host does not crash, and the one response frame it has
\* written when it exits is the error response of the closed stream.
C26_TruncatedBody ==
    BodyCutShort =>
        /\ reader.promise # "resolved"
        /\ reader.parsedAt = -1
        /\ hostLog = <<>>
        /\ hostPc # "crashed"
        /\ hostPc = "exited" =>
              /\ OneFrame(stdout)
              /\ ResponseOf(stdout) = Obj([error |-> Str("stdin closed")])

\* The host has exited on a getToken frame cut after 10 bytes of its body.
C26_Witness ==
    /\ stdin.input = SubSeq(Frame(GetTokenText), 1, 14)
    /\ DeclaredLength = Len(GetTokenText)
    /\ totalLength(reader.chunks) = 10
    /\ stdin.ended
    /\ hostPc = "exited"
    /\ ResponseOf(stdout) = Obj([error |-> Str("stdin closed")])
    /\ hostLog = <<>>

\* C27: when more body bytes than the declared length N have arrived,
\* readMessage parses the first N bytes only, and the bytes after them are
\* still there to be read from standard input as the start of a later frame.
C27_ExcessKept ==
    (reader.parsedAt # -1 /\ reader.parsedAt > reader.messageLength) =>
        /\ LET body == SubSeq(stdin.input, 5, 4 + reader.messageLength) IN
           IF parseRequest(toStringUtf8(body)).ok
           THEN /\ reader.promise = "resolved"
                /\ reader.value = parseRequest(toStringUtf8(body)).value
           ELSE reader.promise = "rejected"
        /\ stdin.buf = SubSeq(concat(reader.chunks),
                              reader.messageLength + 1, reader.parsedAt)

\* C28: the first getToken() call made after handleAuthError has classified
\* an auth error and cleared the cache sends an ADO_GET_TOKEN request and
\* does not return a token from the cache, whatever has happened in between
\* to the requests that were in flight when the error was handled.
C28_ReacquireAfterAuthError ==
    [][\A c \in CallIds :
          (GetToken(c) /\ cleared) =>
              /\ ~obs'.done
              /\ msgs' = Append(msgs, NewMessage("ADO_GET_TOKEN", c))]_vars

\* A step of the background script or of the native host behind it.
RelayStep ==
    \E m \in MsgIds :
        \/ RelayGetToken(m)
        \/ RelayConnectThrows(m)
        \/ RelayClearCache(m)
        \/ \E r \in HostResponses : PortOnMessage(m, r)
        \/ \E e \in DisconnectErrors : PortOnDisconnect(m, e)

\* A step of the dashboard or of its PR widget.
DashboardStep ==
    \/ SaveWidgets
    \/ \E theme \in {"dark"} : SaveTheme(theme)
    \/ \E values \in WidgetConfigs, c \in CallIds : SetConfig(values, c)
    \/ \E c \in CallIds : FetchPRs(c)
    \/ FetchPRsResume
    \/ \E r \in SystemResponses :
          UsersResponse(r) \/ IdentitiesResponse(r) \/ PRsResponse(r)

\* C23: the token's slot is written only by cacheToken and removed only by
\* clearCache.  No key of the dashboard or of its widgets is the token's
\* key; every step of the relay and of the host behind it leaves the slot
\* as it is; a step of the dashboard or of the PR widget leaves it as it is
\* unless it is the widget's call of handleAuthError clearing it; and
\* whenever the slot changes, it becomes absent in a handleAuthError that
\* classified an auth error, or becomes the entry cacheToken writes in the
\* continuation of a getToken() call.
C23_SlotFrame ==
    /\ [](TOKEN_CACHE_KEY \notin ItemKeys)
    /\ [][RelayStep => storage' = storage]_vars
    /\ [][(DashboardStep /\ storage' # storage) =>
            /\ obs'.op = "handleAuthError"
            /\ obs'.ret
            /\ storage' = clearCache]_vars
    /\ [][storage' # storage =>
            \/ /\ obs'.op = "handleAuthError"
               /\ obs'.ret
               /\ storage' = clearCache
            \/ /\ obs'.op = "callback"
               /\ obs'.call # 0
               /\ obs'.outcome.ok
               /\ storage' = cacheToken(Get(obs'.response, "accessToken"),
                                        Get(obs'.response, "expiresOn"))]_vars

\* The widget has saved its pull requests and the dashboard its widgets and
\* its theme while the slot holds the token fetched for the widget.
C23_Witness ==
    /\ storage = EntryText("abc", "1970-01-01T00:01:00.001Z")
    /\ items[getCacheKey(widget.id)] # NoItem
    /\ items[STORAGE_KEY] # NoItem
    /\ items[THEME_STORAGE_KEY] # NoItem
    /\ widget.prs # <<>>
    /\ ~widget.loading

\* The failures of getToken() that are failures of the transport to the
\* relay and the native host.
TransportErrors ==
    { "Extension communication error. Try reloading the page.",
      "No response from background script",
      "Native host error: Native host has exited.. Make sure the native host is installed." }

\* C29: in fetchPRs, a failure that is not an authentication failure (a 404
\* or another status that is not 401, a network failure, a body that cannot
\* be parsed, a failure of the transport to the relay) leaves a valid
\* cached token in the slot, and a 401 leaves the slot absent.
C29_OnlyAuthFailuresClear ==
    /\ [][\A r \in DownstreamResponses :
            (PRsResponse(r) /\ fetchPRsFailure(r).thrown) =>
                IF r.status = 401
                THEN storage' = NoItem
                ELSE isTokenValid(storage, now) => storage' = storage]_vars
    /\ [][(FetchPRsResume /\ obs.outcome.error \in TransportErrors) =>
            (isTokenValid(storage, now) => storage' = storage)]_vars

\* C30: when a run of fetchPRs has ended and a 401 response was received in
\* it, on a user lookup or on the pull-request request, the run has called
\* handleAuthError with the message of the authentication failure.
C30_Every401Reported ==
    (~widget.loading /\ widget.got401) =>
        widget.reported = <<"Authentication failed. Try running: az login">>

\* How many times the subprocess cmd is in the log.
Invocations(log, cmd) == Cardinality({i \in DOMAIN log : log[i] = cmd})

\* C31: in one run of the host on a getToken request the login probe is
\* invoked at most once and the token fetch at most once, the token fetch
\* only after a login probe that succeeded, and when az is found and the
\* login probe fails the response is the not-logged-in error and no token
\* fetch has been invoked.
C31_ProbeThenFetch ==
    [][\A e \in HostEnvs :
          (MainResume(e) /\ GetTokenRequested) =>
              /\ Invocations(hostLog', "account show") <= 1
              /\ Invocations(hostLog', "get-access-token") <= 1
              /\ \A i \in DOMAIN hostLog' :
                    hostLog'[i] = "get-access-token" =>
                        /\ e.account = "ok"
                        /\ \E j \in 1..(i - 1) : hostLog'[j] = "account show"
              /\ (~LocatorNotFound(e) /\ e.account # "ok") =>
                    /\ Invocations(hostLog', "account show") = 1
                    /\ Invocations(hostLog', "get-access-token") = 0
                    /\ Get(ResponseOf(stdout'), "error") =
                          Str("Not logged in to Azure CLI. Open a terminal and run: az login")]_vars

\* The host has answered a getToken request with the not-logged-in error
\* after the version check and the login probe, without a token fetch.
C31_Witness ==
    /\ hostPc = "exited"
    /\ GetTokenRequested
    /\ hostLog = <<"version", "account show">>
    /\ Get(ResponseOf(stdout), "error") =
          Str("Not logged in to Azure CLI. Open a terminal and run: az login")

\* The positions of the platform's candidate list whose path exists on disk.
Present(e) ==
    LET paths == IF e.platform = "win32" THEN WindowsPaths ELSE PosixPaths
    IN  {i \in 1..Len(paths) : paths[i] \in e.exists}

\* C32: findAzCli returns the bare command name whenever the version check
\* of the bare command succeeds; otherwise the path at the lowest position
\* of the platform's candidate list that exists on disk; and not-found
\* exactly when the version check fails and no candidate exists.
C32_findAzCli ==
    obs.op = "findAzCli" =>
        LET e == obs.env
            paths == IF e.platform = "win32" THEN WindowsPaths ELSE PosixPaths
            first == CHOOSE i \in Present(e) : \A j \in Present(e) : i <= j
        IN  /\ e.version = "ok" =>
                  obs.ret = (IF e.platform = "win32" THEN "az.cmd" ELSE "az")
            /\ (e.version # "ok" /\ Present(e) # {}) => obs.ret = paths[first]
            /\ obs.ret = NotFound <=> (e.version # "ok" /\ Present(e) = {})

\* The version check has failed with two candidates on disk, and findAzCli
\* has returned the one that comes first in the list.
C32_Witness ==
    /\ obs.op = "findAzCli"
    /\ obs.env.platform = "linux"
    /\ obs.env.version = "fail"
    /\ obs.env.exists = {"~/.local/bin/az", "/usr/bin/az"}
    /\ obs.ret = "/usr/bin/az"

\* s begins with prefix and ends with suffix.
Encloses(s, prefix, suffix) ==
    /\ Len(s) >= Len(prefix) + Len(suffix)
    /\ SubSeq(s, 1, Len(prefix)) = prefix
    /\ SubSeq(s, Len(s) - Len(suffix) + 1, Len(s)) = suffix

\* The response v is the error that names the native host as unavailable
\* and hints at installing it.
TransportUnavailable(v) ==
    /\ v.type = "object"
    /\ Get(v, "error").type = "string"
    /\ Encloses(Get(v, "error").str, "Native host error: ",
                ". Make sure the native host is installed.")

\* C33: when connecting to the host throws, when the host exits without a
\* response and when the channel closes unexpectedly, the relay answers the
\* request with the error that names the native host as unavailable and
\* hints at installing it.
C33_TransportUnavailable ==
    [][\A m \in MsgIds :
          (\/ RelayConnectThrows(m)
           \/ \E e \in DisconnectErrors : PortOnDisconnect(m, e)) =>
              /\ msgs'[m].chan = "responded"
              /\ TransportUnavailable(msgs'[m].response)]_vars

\* The value v, an argument of a console record, holds the text t: as a
\* string, or as a string property of an object.
Holds(v, t) ==
    \/ v.type = "string" /\ includes(v.str, t)
    \/ /\ v.type = "object"
       /\ \E k \in DOMAIN v.props :
             v.props[k].type = "string" /\ includes(v.props[k].str, t)

\* An argument of the record holds the text t.
Mentions(record, t) == \E j \in DOMAIN record : Holds(record[j], t)

GetTokenFails ==
    /\ obs'.op = "callback"
    /\ obs'.call # 0
    /\ calls[obs'.call].op = "getToken"
    /\ obs'.done
    /\ ~obs'.outcome.ok

\* C35: getToken() does not change the slot on its way to the relay, and
\* when the acquisition fails (an error response, no response, a transport
\* error, a response without accessToken or without expiresOn) its
\* continuation leaves the slot exactly as it found it, whatever the slot
\* holds: it neither clears nor overwrites it.
C35_FailureKeepsSlot ==
    /\ [][\A c \in CallIds : GetToken(c) => storage' = storage]_vars
    /\ [][GetTokenFails => storage' = storage]_vars

\* getToken() has failed on the relay's error response while the slot held
\* an expired entry, and the entry is still there.
C35_Witness ==
    /\ obs.op = "callback"
    /\ obs.call # 0
    /\ obs.done
    /\ obs.outcome = Thrown("Failed to get access token")
    /\ storage = EntryText("abc", "1970-01-01T00:00:31.000Z")

\* The step ends a refreshToken() call in failure.
RefreshTokenFails ==
    /\ obs'.op = "refreshCallback"
    /\ obs'.done
    /\ ~obs'.outcome.ok

\* The step completes an acquisition: getToken() or refreshToken() returns a
\* token from the relay's answer, or cacheToken is called.
AcquisitionCompletes ==
    \/ obs'.op \in {"callback", "refreshCallback"} /\ obs'.done /\ obs'.outcome.ok
    \/ obs'.op = "cacheToken"

\* C36: refreshToken() leaves the slot absent when it starts, whatever the
\* slot held, a valid entry included; the continuation in which it fails
\* leaves the slot as it is; and an absent slot is filled only by a step
\* that completes an acquisition.  So after a failed refreshToken() with no
\* other acquisition completed in the meantime the slot is absent.
C36_FailedRefreshLeavesAbsent ==
    /\ [][\A c \in CallIds : RefreshToken(c) => storage' = NoItem]_vars
    /\ [][RefreshTokenFails => storage' = storage]_vars
    /\ [][(storage = NoItem /\ storage' # NoItem) => AcquisitionCompletes]_vars

\* refreshToken() has failed on the relay's error response, and the slot is
\* absent.
C36_Witness ==
    /\ obs.op = "refreshCallback"
    /\ obs.type = "ADO_GET_TOKEN"
    /\ obs.done
    /\ obs.outcome = Thrown("Failed to get access token")
    /\ storage = NoItem

\* The step delivers a response to a getToken() call, which returns its
\* token.
GetTokenSucceeds ==
    /\ obs'.op = "callback"
    /\ obs'.call # 0
    /\ calls[obs'.call].op = "getToken"
    /\ obs'.done
    /\ obs'.outcome.ok

\* The slot st holds the pair of the response.
HoldsPairOf(st, response) ==
    LET cached == getCachedToken(st) IN
    /\ Truthy(cached)
    /\ Get(cached, "accessToken") = Get(response, "accessToken")
    /\ Get(cached, "expiresOn") = Get(response, "expiresOn")

C38_ListOfCurrentConfig ==
    /\ widget.prs # <<>> => widget.prs = <<widget.data>>
    /\ items[getCacheKey(widget.id)] # NoItem =>
         items[getCacheKey(widget.id)].prs = <<widget.data>>

====
